---- MODULE Spec2Model ----
(***************************************************************************)
(* A model of the NEAT engine of rl-evol-ai: the genome (node lists and    *)
(* the edge list ordered by innovation number), the mutation and crossover *)
(* operators that grow it, and the network executor (FFNetwork) that       *)
(* evaluates a genome with the dual-buffer (current/previous) scheme.      *)
(*                                                                         *)
(* Rust f32 values are modelled as exact rationals <<num, den>> with       *)
(* den > 0 in lowest terms; the f32 NaN is the pair <<0, 0>>.  Node levels *)
(* (Ratio<usize>) are the same exact rationals.  Where the rounding of an  *)
(* f32 operation matters (the element-level crossovers and the Clamp), an  *)
(* f32 is m * 2^e with a significand m of 24 bits, rounded to nearest even.*)
(***************************************************************************)
EXTENDS Integers, Sequences, FiniteSets, TLC

VARIABLES
    factory,    \* GenomeFactory: "uninit", or [input, output] node lists
    population, \* the genomes alive in the run
    counter,    \* InnovNumber: the shared innovation counter
    counter0,   \* the value the innovation counter started from
    panicked,   \* "none", or the panic/assertion that aborted the run
    nl_self,    \* NodeList crossover: the node list of the first parent
    nl_other,   \* NodeList crossover: the node list of the second parent
    nl_child,   \* NodeList crossover: the outcome, once the call is made
    net_genome, \* network: the genome the network is built from
    net_run,    \* network: the run of FFNetwork on the genome
    net_twin,   \* network: the run on the genome with contiguous hidden ids
    mu_genome,  \* mutate calls on one genome: the genome
    mu_counter, \* mutate calls on one genome: the innovation counter
    mu_first,   \* the value of the counter before the first of the calls
    mu_calls,   \* the number of calls of mutate made
    mu_last,    \* the last call: the genome and counter before it, and
                \* after each of its parts
    mu_panic,   \* "none", or the panic that ended the last call
    cl_clamp,   \* the Clamp of one node, under mutation and crossover
    cl_last,    \* the Clamp of one node: the last operation on it
    cl_ops,     \* the Clamp of one node: the mutations and crossovers made
    cx_in,      \* element crossover: the two parents and their fitnesses
    cx_out,     \* element crossover: the outcome, once the call is made
    ev_pop,     \* evolve: the population and its comparison metric
    ev_run,     \* evolve: the call of evolve on the population
    fa_call     \* factory: one call of GenomeFactory::init, its result and
                \* the genomes generated from it

evoVars == <<factory, population, counter, counter0, panicked>>
nodeListVars == <<nl_self, nl_other, nl_child>>
netVars == <<net_genome, net_run, net_twin>>
mutVars == <<mu_genome, mu_counter, mu_first, mu_calls, mu_last, mu_panic>>
cfgVars == <<cl_clamp, cl_last, cl_ops, cx_in, cx_out>>
evolveVars == <<ev_pop, ev_run>>
factoryVars == <<fa_call>>
vars == <<evoVars, nodeListVars, netVars, mutVars, cfgVars, evolveVars, factoryVars>>

----------------------------------------------------------------------------
(* Bounds of the model *)

\* innovation numbers the counter hands out in one run
MaxFresh == 4

----------------------------------------------------------------------------
(* Exact rationals *)

Abs(x) == IF x < 0 THEN -x ELSE x

RECURSIVE GCD(_, _)
GCD(a, b) == IF b = 0 THEN a ELSE GCD(b, a % b)

\* lowest terms, positive denominator
Reduce(n, d) ==
    LET g == GCD(Abs(n), Abs(d))
        s == IF d < 0 THEN -1 ELSE 1
    IN  <<(s * n) \div g, (s * d) \div g>>

Rat(n) == <<n, 1>>
RLt(a, b) == a[1] * b[2] < b[1] * a[2]
RLe(a, b) == a[1] * b[2] <= b[1] * a[2]
RAdd(a, b) == Reduce(a[1] * b[2] + b[1] * a[2], a[2] * b[2])
RMul(a, b) == Reduce(a[1] * b[1], a[2] * b[2])
RDivInt(a, k) == Reduce(a[1], a[2] * k)

----------------------------------------------------------------------------
(* Sequences *)

Range(s) == {s[i] : i \in 1..Len(s)}

\* all sequences that take their k-th element from the k-th set
RECURSIVE Product(_)
Product(sets) ==
    IF Len(sets) = 0 THEN {<<>>}
    ELSE {<<x>> \o t : x \in Head(sets), t \in Product(Tail(sets))}

RECURSIVE SeqOfSet(_)
SeqOfSet(S) ==
    IF S = {} THEN <<>>
    ELSE LET m == CHOOSE x \in S : \A y \in S : x <= y
         IN  <<m>> \o SeqOfSet(S \ {m})

----------------------------------------------------------------------------
(* Data model: Node, Config, GenomeEdge, NodeList, Genome *)

MIN_RATIO == 1
MAX_RATIO == 100
MIN_CLAMP == -5
MAX_CLAMP == 5

\* Clamp::default: both limits set
ClampDefault == [min_limit |-> MIN_CLAMP, max_limit |-> MAX_CLAMP]

\* Config::default: Mean aggregation, default clamp, Relu activation
ConfigDefault ==
    [aggregation |-> "Mean", clamp |-> ClampDefault, activation |-> "Relu"]

\* Node::new(node_id, level, None)
NodeNew(id, level) == [node_id |-> id, level |-> level, config |-> ConfigDefault]

\* Ord for Node compares the levels and nothing else
NodeCmp(a, b) ==
    IF RLt(a.level, b.level) THEN "Less"
    ELSE IF RLt(b.level, a.level) THEN "Greater"
    ELSE "Equal"

\* Ord for GenomeEdge compares the innovation numbers
EdgeCmp(a, b) ==
    IF a.innov_number < b.innov_number THEN "Less"
    ELSE IF a.innov_number > b.innov_number THEN "Greater"
    ELSE "Equal"

\* the windows(2) test of OrderedGenomeList::new_sorted
IsSortedLe(edge_list) ==
    \A i \in 1..(Len(edge_list) - 1) :
        edge_list[i].innov_number <= edge_list[i + 1].innov_number

\* GenomeFactory::init with an id generator of its own for the outputs
FactoryInitOutputIdsFromZero(input, output) ==
    IF input = 0 \/ output = 0 THEN [err |-> "ZeroIOVector"]
    ELSE [input  |-> [i \in 1..input |-> NodeNew(i - 1, Rat(MIN_RATIO))],
          output |-> [i \in 1..output |-> NodeNew(i - 1, Rat(MAX_RATIO))]]

\* GenomeFactory::init: ids 0..input+output-1, inputs first
FactoryInitResult(input, output) ==
    IF input = 0 \/ output = 0 THEN [err |-> "ZeroIOVector"]
    ELSE [input  |-> [i \in 1..input |-> NodeNew(i - 1, Rat(MIN_RATIO))],
          output |-> [i \in 1..output |-> NodeNew(input + i - 1, Rat(MAX_RATIO))]]

\* GenomeFactory::generate_genome: no hidden node, no edge
GenerateGenome(f) ==
    [input |-> f.input, output |-> f.output, hidden |-> <<>>, edges |-> <<>>]

\* InnovNumber::next: hands out the current number and moves on
InnovNext(c) == [number |-> c, counter |-> c + 1]

----------------------------------------------------------------------------
(* Crossover *)

\* values the random draws of the model range over
WeightVals == {1}
AggregationVals == {"Mean"}
ActivationVals == {"Relu"}

Min2(a, b) == IF a <= b THEN a ELSE b
Max2(a, b) == IF a >= b THEN a ELSE b

\* CrossoverMisc::f32_crossover: fst * (1 - t) + t * snd with t = u^expo,
\* u in [0, 1): the results over all draws u
F32Crossover(fst, snd) == {w \in WeightVals : Min2(fst, snd) <= w /\ w <= Max2(fst, snd)}

\* CrossoverMisc::bernoulli_crossover: one of the two items
BernoulliCrossover(item_fst, item_snd) == {item_fst, item_snd}

\* T::cmp for the two element types merge is used with
Cmp(T, a, b) == IF T = "Node" THEN NodeCmp(a, b) ELSE EdgeCmp(a, b)

\* merge: the two peeked streams are walked from positions i and j; the
\* result lists, per child element, where it comes from.  Elements that
\* compare Equal are consumed one from each stream and crossed.
RECURSIVE MergeFrom(_, _, _, _, _)
MergeFrom(fst, snd, i, j, T) ==
    IF i <= Len(fst) /\ j <= Len(snd)
    THEN LET c == Cmp(T, fst[i], snd[j])
         IN  IF c = "Less"
             THEN <<[from |-> "fst", a |-> fst[i], b |-> fst[i]]>>
                      \o MergeFrom(fst, snd, i + 1, j, T)
             ELSE IF c = "Greater"
             THEN <<[from |-> "snd", a |-> snd[j], b |-> snd[j]]>>
                      \o MergeFrom(fst, snd, i, j + 1, T)
             ELSE <<[from |-> "both", a |-> fst[i], b |-> snd[j]]>>
                      \o MergeFrom(fst, snd, i + 1, j + 1, T)
    ELSE [k \in 1..(Len(fst) - i + 1) |->
              [from |-> "fst", a |-> fst[i + k - 1], b |-> fst[i + k - 1]]]
         \o [k \in 1..(Len(snd) - j + 1) |->
              [from |-> "snd", a |-> snd[j + k - 1], b |-> snd[j + k - 1]]]

\* a merge that leaves out the elements of the second stream alone
mergeWithoutSnd(fst, snd, T) ==
    SelectSeq(MergeFrom(fst, snd, 1, 1, T), LAMBDA e : e.from # "snd")

merge(fst, snd, T) == MergeFrom(fst, snd, 1, 1, T)

\* impl Crossover for Node: the two assert_eq!, true iff both pass
NodeCrossoverAsserts(a, b) == a.node_id = b.node_id /\ a.level = b.level

\* impl Crossover for Node: the children over all draws (Aggregation and
\* Activation without parameters: a Bernoulli pick resp. self's variant)
NodeCrossover(a, b) ==
    {[node_id |-> a.node_id, level |-> a.level,
      config |-> [aggregation |-> g, clamp |-> [min_limit |-> lo, max_limit |-> hi],
                  activation |-> a.config.activation]] :
        g \in BernoulliCrossover(a.config.aggregation, b.config.aggregation),
        lo \in Min2(a.config.clamp.min_limit, b.config.clamp.min_limit)
                 ..Max2(a.config.clamp.min_limit, b.config.clamp.min_limit),
        hi \in Min2(a.config.clamp.max_limit, b.config.clamp.max_limit)
                 ..Max2(a.config.clamp.max_limit, b.config.clamp.max_limit)}

\* impl Crossover for GenomeEdge: the assert_eq! on the innovation numbers
EdgeCrossoverAsserts(a, b) == a.innov_number = b.innov_number

\* impl Crossover for GenomeEdge: endpoints of self, weight and enabled crossed
EdgeCrossover(a, b) ==
    {[innov_number |-> a.innov_number, in_node |-> a.in_node, out_node |-> a.out_node,
      weight |-> w, enabled |-> e] :
        w \in F32Crossover(a.weight, b.weight),
        e \in BernoulliCrossover(a.enabled, b.enabled)}

\* T::crossover and its assertions for the two element types
Cross(T, a, b) == IF T = "Node" THEN NodeCrossover(a, b) ELSE EdgeCrossover(a, b)
CrossAsserts(T, a, b) ==
    IF T = "Node" THEN NodeCrossoverAsserts(a, b) ELSE EdgeCrossoverAsserts(a, b)

\* the child lists a merge plan can give: one draw per crossed element
Children(plan, T) ==
    Product([k \in 1..Len(plan) |->
                IF plan[k].from = "both" THEN Cross(T, plan[k].a, plan[k].b)
                ELSE {plan[k].a}])

\* does some crossed pair of the plan fail the element's assertions
PlanPanics(plan, T) ==
    \E k \in 1..Len(plan) :
        plan[k].from = "both" /\ ~CrossAsserts(T, plan[k].a, plan[k].b)

\* impl Crossover for NodeList: input and output of self, the hidden lists
\* merged.  The outcomes: node lists, or the panic of a crossed pair.
NodeListCrossover(self, other) ==
    LET plan == merge(self.hidden, other.hidden, "Node")
    IN  IF PlanPanics(plan, "Node")
        THEN {[panic |-> "Node::crossover assert_eq"]}
        ELSE {[input |-> self.input, output |-> self.output, hidden |-> hl] :
                  hl \in Children(plan, "Node")}

\* impl Crossover for OrderedGenomeList: new_sorted over the merged edges.
\* The outcomes: edge lists, or the panic of an assertion.
OrderedGenomeListCrossover(self, other) ==
    LET plan == merge(self, other, "GenomeEdge")
    IN  IF PlanPanics(plan, "GenomeEdge")
        THEN {[panic |-> "GenomeEdge::crossover assert_eq"]}
        ELSE {IF IsSortedLe(el) THEN [edge_list |-> el]
              ELSE [panic |-> "new_sorted assert"] :
                  el \in Children(plan, "GenomeEdge")}

\* NeatCrossover::crossover_method: node lists first, then the edge lists.
\* The outcomes: children, or the panic the call ends in.
CrossoverMethod(item_a, item_b) ==
    LET nls == NodeListCrossover(item_a, item_b)
        els == OrderedGenomeListCrossover(item_a.edges, item_b.edges)
    IN  {IF "panic" \in DOMAIN nl THEN nl
         ELSE IF "panic" \in DOMAIN el THEN el
         ELSE [input |-> nl.input, output |-> nl.output, hidden |-> nl.hidden,
               edges |-> el.edge_list] :
             nl \in nls, el \in els}

----------------------------------------------------------------------------
(* Mutation *)

\* GaussianMutation::default().max_iteration
MAX_ITERATION == 10

\* weight_mutation: (u * 2 - 1) * coeff over the draws u
JitterVals == {0}

\* impl Mutation for Clamp: each limit that is set moves by its own jitter
ClampMutate(clamp) ==
    {[min_limit |-> clamp.min_limit + j1, max_limit |-> clamp.max_limit + j2] :
        j1 \in JitterVals, j2 \in JitterVals}

\* the per-node part of mutate: three independent gen_bool draws, each
\* followed by a resample of that field
MutateConfig(config) ==
    {[aggregation |-> g, clamp |-> c, activation |-> a] :
        g \in {config.aggregation} \cup AggregationVals,
        c \in {config.clamp} \cup
              ClampMutate(config.clamp),
        a \in {config.activation} \cup ActivationVals}

\* the per-edge part of mutate: enabled may flip, the weight may be jittered
MutateEdge(v) ==
    {[v EXCEPT !.enabled = e, !.weight = w] :
        e \in {v.enabled, ~v.enabled},
        w \in {v.weight} \cup {x \in WeightVals : \E j \in JitterVals : x = v.weight + j}}

\* slice::binary_search_by on node ids: on a list in ascending order of id
\* an index holding the id (any of them when the id is held more than
\* once), Err when there is none; on a list that is not in order the result
\* is unspecified (any index holding the id, or Err); 0 stands for Err
IsSortedById(list) ==
    \A i \in 1..(Len(list) - 1) : list[i].node_id < list[i + 1].node_id

IsOrderedById(list) ==
    \A i \in 1..(Len(list) - 1) : list[i].node_id <= list[i + 1].node_id

BinarySearchById(list, id) ==
    LET hits == {i \in 1..Len(list) : list[i].node_id = id}
    IN  IF IsOrderedById(list)
        THEN (IF hits = {} THEN {0} ELSE hits)
        ELSE hits \cup {0}

\* (level(a) + level(b)) / 2 on Ratio<usize>
MidLevel(a, b) == RDivInt(RAdd(a, b), 2)

\* an add-node step that pushes the second new edge before the first
AddNodePushSwapped(g, k, node_start, node_end, c, agg, act, w1, w2) ==
    LET n0 == InnovNext(c)
        n1 == InnovNext(n0.counter)
        n2 == InnovNext(n1.counter)
        new_node == [node_id |-> n0.number,
                     level |-> RDivInt(RAdd(node_start.level, node_end.level), 2),
                     config |-> [aggregation |-> agg, clamp |-> ClampDefault,
                                 activation |-> act]]
        edge1 == [innov_number |-> n1.number, in_node |-> node_start.node_id,
                  out_node |-> new_node.node_id, weight |-> w1, enabled |-> TRUE]
        edge2 == [innov_number |-> n2.number, in_node |-> new_node.node_id,
                  out_node |-> node_end.node_id, weight |-> w2, enabled |-> TRUE]
    IN  [genome |-> [g EXCEPT !.edges = Append(Append([@ EXCEPT ![k].enabled = FALSE],
                                                        edge2), edge1),
                              !.hidden = Append(@, new_node)],
         counter |-> n2.counter]

\* an add-node step that draws a fourth innovation number and drops it
AddNodeBurnsFour(g, k, node_start, node_end, c, agg, act, w1, w2) ==
    LET n0 == InnovNext(c)
        n1 == InnovNext(n0.counter)
        n2 == InnovNext(n1.counter)
        n3 == InnovNext(n2.counter)
        new_node == [node_id |-> n0.number,
                     level |-> RDivInt(RAdd(node_start.level, node_end.level), 2),
                     config |-> [aggregation |-> agg, clamp |-> ClampDefault,
                                 activation |-> act]]
        edge1 == [innov_number |-> n1.number, in_node |-> node_start.node_id,
                  out_node |-> new_node.node_id, weight |-> w1, enabled |-> TRUE]
        edge2 == [innov_number |-> n2.number, in_node |-> new_node.node_id,
                  out_node |-> node_end.node_id, weight |-> w2, enabled |-> TRUE]
    IN  [genome |-> [g EXCEPT !.edges = Append(Append([@ EXCEPT ![k].enabled = FALSE],
                                                        edge1), edge2),
                              !.hidden = Append(@, new_node)],
         counter |-> n3.counter]

\* the add-node step on the edge at position k, with the two looked-up
\* endpoints; three innovation numbers are drawn in the order node, edge1,
\* edge2; the new edges and the new node are pushed at the end
AddNode(g, k, node_start, node_end, c, agg, act, w1, w2) ==
    LET n0 == InnovNext(c)
        n1 == InnovNext(n0.counter)
        n2 == InnovNext(n1.counter)
        new_node == [node_id |-> n0.number,
                     level |-> MidLevel(node_start.level, node_end.level),
                     config |-> [aggregation |-> agg, clamp |-> ClampDefault,
                                 activation |-> act]]
        edge1 == [innov_number |-> n1.number, in_node |-> node_start.node_id,
                  out_node |-> new_node.node_id, weight |-> w1, enabled |-> TRUE]
        edge2 == [innov_number |-> n2.number, in_node |-> new_node.node_id,
                  out_node |-> node_end.node_id, weight |-> w2, enabled |-> TRUE]
    IN  [genome |-> [g EXCEPT !.edges = Append(Append([@ EXCEPT ![k].enabled = FALSE],
                                                        edge1), edge2),
                              !.hidden = Append(@, new_node)],
         counter |-> n2.counter]

\* integer power
RECURSIVE Pow(_, _)
Pow(b, e) == IF e = 0 THEN 1 ELSE b * Pow(b, e - 1)

\* ceil(log_ratio(0.01)) for ratio = len / total, as far as it matters
\* below the cap: the least k with ratio^k <= 0.01; 0 for ratio = 0 and
\* (cast of a negative float) for ratio > 1
RECURSIVE LogCeilFrom(_, _, _, _)
LogCeilFrom(len, total, k, cap) ==
    IF k >= cap \/ Pow(len, k) <= Pow(total, k) \div 100 THEN k
    ELSE LogCeilFrom(len, total, k + 1, cap)

\* the number of add-edge attempts: (ceil(log) min 100) + 2, min max_iteration
Attempt(len, total) ==
    LET l == IF len = 0 \/ len > total THEN 0
             ELSE LogCeilFrom(len, total, 1, MAX_ITERATION)
    IN  Min2(Min2(l, 100) + 2, MAX_ITERATION)

NodeIds(list) == {list[i].node_id : i \in 1..Len(list)}

\* the edge capacity add-edge computes: total
Capacity(g) ==
    LET n == Len(g.input)
        p == Len(g.hidden) + Len(g.output)
    IN  n * p + p * (p - 1)

\* the add-edge step: whether the loop is entered at all
AddEdgeTries(g) ==
    IF Len(g.edges) # Capacity(g) THEN Attempt(Len(g.edges), Capacity(g)) ELSE 0

\* the (start, end) pairs an attempt can draw
AddEdgePairs(g) ==
    (NodeIds(g.input) \cup NodeIds(g.hidden) \cup NodeIds(g.output))
        \X (NodeIds(g.hidden) \cup NodeIds(g.output))

\* the pairs the genome has an edge for (the TreeSet built before the loop)
EdgePairs(g) == {<<g.edges[i].in_node, g.edges[i].out_node>> : i \in 1..Len(g.edges)}

\* the add-edge step when an attempt draws the free pair (start, end)
AddEdge(g, start, end, c, w, en) ==
    LET n == InnovNext(c)
    IN  [genome |-> [g EXCEPT !.edges = Append(@, [innov_number |-> n.number,
                                                   in_node |-> start, out_node |-> end,
                                                   weight |-> w, enabled |-> en])],
         counter |-> n.counter]

\* an add-edge loop that takes the innovation number before it tests the
\* pair, so that an attempt on a taken pair uses a number up
RECURSIVE AddEdgeLoopBurning(_, _, _, _, _, _, _)
AddEdgeLoopBurning(g, c, map, draws, i, w, en) ==
    IF i > Len(draws) THEN [genome |-> g, counter |-> c]
    ELSE IF draws[i] \notin map
    THEN AddEdge(g, draws[i][1], draws[i][2], c, w, en)
    ELSE AddEdgeLoopBurning(g, InnovNext(c).counter, map, draws, i + 1, w, en)

\* the loop of add-edge over the drawn (start, end) pairs, from attempt i
\* on: the first pair that is not in the map gets the edge and ends the
\* loop; a pair in the map is passed over
RECURSIVE AddEdgeLoop(_, _, _, _, _, _, _)
AddEdgeLoop(g, c, map, draws, i, w, en) ==
    IF i > Len(draws) THEN [genome |-> g, counter |-> c]
    ELSE IF draws[i] \notin map
    THEN AddEdge(g, draws[i][1], draws[i][2], c, w, en)
    ELSE AddEdgeLoop(g, c, map, draws, i + 1, w, en)

\* the add-edge part of mutate once it is drawn: nothing when the edge
\* count equals the capacity, else the loop over the attempts
AddEdgeStep(g, c, draws, w, en) ==
    IF Len(g.edges) = Capacity(g) THEN [genome |-> g, counter |-> c]
    ELSE AddEdgeLoop(g, c, EdgePairs(g), draws, 1, w, en)

\* the draws of the attempts the model ranges over: the same pair at every
\* attempt, or one taken pair at every attempt but the last, where a free
\* pair is drawn
AddEdgeDraws(g) ==
    LET tries == AddEdgeTries(g)
        taken == AddEdgePairs(g) \cap EdgePairs(g)
    IN  {[i \in 1..tries |-> pr] : pr \in AddEdgePairs(g)}
        \cup {[i \in 1..tries |-> IF i < tries THEN occ ELSE pr] :
                  occ \in taken, pr \in AddEdgePairs(g) \ taken}

----------------------------------------------------------------------------
(* The evolution state machine: factory, mutation, crossover *)

\* the innovation counter starts at zero
InitCounters == {0}

\* the sizes asked of GenomeFactory::init
FactorySizes == {0, 1}

\* the population holds at most this many different genomes at a time
\* (a genome held twice is the same member)
PopCap == Cardinality({"a", "b"})

\* the value of a variable the running machine does not use, or has not set
Uninit == [uninit |-> TRUE]
IsErr(r) == "err" \in DOMAIN r
IsPanic(r) == "panic" \in DOMAIN r

\* the variables of the mutate calls on one genome, not in use
MutUnused ==
    /\ mu_genome = Uninit /\ mu_counter = 0 /\ mu_first = 0 /\ mu_calls = 0
    /\ mu_last = Uninit /\ mu_panic = "none"

CfgUnused ==
    /\ cl_clamp = Uninit /\ cl_last = Uninit /\ cl_ops = 0
    /\ cx_in = Uninit /\ cx_out = Uninit

EvolveUnused == ev_pop = Uninit /\ ev_run = Uninit
FactoryUnused == fa_call = Uninit

InitEvo ==
    /\ nl_self = Uninit /\ nl_other = Uninit /\ nl_child = Uninit
    /\ net_genome = Uninit /\ net_run = Uninit /\ net_twin = Uninit
    /\ MutUnused
    /\ EvolveUnused
    /\ FactoryUnused
    /\ CfgUnused
    /\ factory = Uninit
    /\ population = {}
    /\ counter \in InitCounters
    /\ counter0 = counter
    /\ panicked = "none"

\* the populations after genome g joins: it takes a free place or the
\* place of a member
Join(pop, g) ==
    {q \in {pop \cup {g}} \cup {(pop \ {v}) \cup {g} : v \in pop} :
        Cardinality(q) <= PopCap}

\* GenomeFactory::init(input, output)
FactoryInit(input, output) ==
    /\ panicked = "none"
    /\ factory = Uninit
    /\ LET r == FactoryInitResult(input, output)
       IN  factory' = (IF IsErr(r) THEN factory ELSE r)
    /\ UNCHANGED <<population, counter, counter0, panicked, nodeListVars, netVars, evolveVars, factoryVars, mutVars, cfgVars>>

\* GenomeFactory::generate_genome: a fresh genome joins the population
Generate ==
    /\ panicked = "none"
    /\ factory # Uninit
    /\ population' \in Join(population, GenerateGenome(factory))
    /\ UNCHANGED <<factory, counter, counter0, panicked, nodeListVars, netVars, evolveVars, factoryVars, mutVars, cfgVars>>

\* NeatCrossover::crossover_method on two members (a is the first parent);
\* the child joins the population
Crossover(a, b) ==
    /\ panicked = "none"
    /\ \E child \in CrossoverMethod(a, b) :
        IF IsPanic(child)
        THEN panicked' = child.panic /\ UNCHANGED population
        ELSE panicked' = panicked /\ population' \in Join(population, child)
    /\ UNCHANGED <<factory, counter, counter0, nodeListVars, netVars, evolveVars, factoryVars, mutVars, cfgVars>>

\* the genome after the per-node and per-edge parts of mutate: every
\* hidden and output node and every edge takes its own draws
MutatePayload(g) ==
    {[g EXCEPT !.hidden = hl, !.output = ol, !.edges = el] :
        hl \in Product([i \in 1..Len(g.hidden) |->
                  {[g.hidden[i] EXCEPT !.config = c] :
                       c \in MutateConfig(g.hidden[i].config)}]),
        ol \in Product([i \in 1..Len(g.output) |->
                  {[g.output[i] EXCEPT !.config = c] :
                       c \in MutateConfig(g.output[i].config)}]),
        el \in Product([i \in 1..Len(g.edges) |-> MutateEdge(g.edges[i])])}

\* the outcomes of the add-node part of mutate on genome g with counter c:
\* skipped, done on the edge at some position k, or a panic (no edge to
\* choose, or a failed lookup of an endpoint)
AddNodeOutcomes(g, c) ==
    LET concated_list == g.input \o g.output \o g.hidden
    IN  {[genome |-> g, counter |-> c, panic |-> "none", node |-> FALSE, k |-> 0]}
        \cup (IF Len(g.edges) = 0
              THEN {[genome |-> g, counter |-> c,
                     panic |-> "choose(rng).unwrap() on no edge", node |-> TRUE,
                     k |-> 0]}
              ELSE UNION {
                   LET si == BinarySearchById(concated_list, g.edges[k].in_node)
                       ei == BinarySearchById(concated_list, g.edges[k].out_node)
                   IN  {IF i = 0 \/ j = 0
                        THEN [genome |-> g, counter |-> c,
                              panic |-> "binary_search_by unwrap", node |-> TRUE,
                              k |-> k]
                        ELSE AddNode(g, k, concated_list[i], concated_list[j], c,
                                     agg, act, w1, w2)
                                 @@ [panic |-> "none", node |-> TRUE, k |-> k] :
                            i \in si, j \in ei, agg \in AggregationVals,
                            act \in ActivationVals, w1 \in WeightVals, w2 \in WeightVals}
                   : k \in 1..Len(g.edges)})

\* the outcomes of the add-edge part of mutate: not drawn, or drawn with
\* some draws of the attempts (no draw is made when the graph is saturated)
AddEdgeOutcomes(g, c) ==
    {[genome |-> g, counter |-> c, edge |-> FALSE, draws |-> <<>>]}
    \cup {AddEdgeStep(g, c, draws, w, en) @@ [edge |-> TRUE, draws |-> draws] :
              draws \in AddEdgeDraws(g), w \in WeightVals, en \in BOOLEAN}

\* GaussianMutation::mutate on member g, in place (the population may
\* hold the genome a second time, which stays as it was)
Mutate(g) ==
    /\ panicked = "none"
    /\ \E g1 \in MutatePayload(g) :
       \E r1 \in AddNodeOutcomes(g1, counter) :
          IF r1.panic # "none"
          THEN /\ panicked' = r1.panic
               /\ population' = (population \ {g}) \cup {g1}
               /\ counter' = counter
          ELSE \E r2 \in AddEdgeOutcomes(r1.genome, r1.counter) :
               /\ r2.counter <= counter0 + MaxFresh
               /\ panicked' = panicked
               /\ population' \in
                      {q \in {(population \ {g}) \cup {r2.genome},
                              population \cup {r2.genome}} :
                           Cardinality(q) <= PopCap}
               /\ counter' = r2.counter
    /\ UNCHANGED <<factory, counter0, nodeListVars, netVars, evolveVars, factoryVars, mutVars, cfgVars>>

NextEvo ==
    \/ \E i \in FactorySizes, o \in FactorySizes : FactoryInit(i, o)
    \/ Generate
    \/ \E a \in population, b \in population : Crossover(a, b)
    \/ \E g \in population : Mutate(g)

SpecEvo == InitEvo /\ [][NextEvo]_vars

----------------------------------------------------------------------------
(* Calls of mutate on one genome, with one innovation counter *)

\* calls of mutate made on the genome
MaxMutations == 2

\* the shared counter when the genome comes from the factory: nothing
\* handed out yet, or two numbers handed out to other genomes
StartCounters == {c + used : c \in InitCounters, used \in {0, 2}}

\* the genome and the counter the calls start from: a genome fresh from
\* the factory, or one that add-edge has given its first edge 0 -> 1
MutateStarts ==
    LET g0 == GenerateGenome(FactoryInitResult(1, 1))
    IN  {[genome |-> g0, counter |-> c] : c \in StartCounters}
        \cup {AddEdge(g0, 0, 1, c, w, TRUE) : c \in StartCounters, w \in WeightVals}

InitMutate ==
    /\ \E st \in MutateStarts :
           mu_genome = st.genome /\ mu_counter = st.counter /\ mu_first = st.counter
    /\ mu_calls = 0 /\ mu_last = Uninit /\ mu_panic = "none"
    /\ factory = Uninit /\ population = {} /\ counter = 0 /\ counter0 = 0
    /\ panicked = "none"
    /\ nl_self = Uninit /\ nl_other = Uninit /\ nl_child = Uninit
    /\ net_genome = Uninit /\ net_run = Uninit /\ net_twin = Uninit
    /\ CfgUnused
    /\ EvolveUnused
    /\ FactoryUnused

\* GaussianMutation::mutate on the genome: the per-node and per-edge
\* draws, then add-node, then add-edge; mu_last keeps the genome and
\* the counter before the call (before), after the draws (payload), after
\* add-node (node) and after add-edge (edge)
MutateCall ==
    /\ mu_panic = "none" /\ mu_calls < MaxMutations
    /\ \E g1 \in MutatePayload(mu_genome) :
       \E r1 \in AddNodeOutcomes(g1, mu_counter) :
          IF r1.panic # "none"
          THEN /\ mu_panic' = r1.panic
               /\ mu_genome' = g1
               /\ mu_counter' = mu_counter
               /\ mu_last' = [before |-> mu_genome, counter |-> mu_counter,
                              payload |-> g1, node |-> r1, edge |-> Uninit]
          ELSE \E r2 \in AddEdgeOutcomes(r1.genome, r1.counter) :
               /\ mu_panic' = mu_panic
               /\ mu_genome' = r2.genome
               /\ mu_counter' = r2.counter
               /\ mu_last' = [before |-> mu_genome, counter |-> mu_counter,
                              payload |-> g1, node |-> r1, edge |-> r2]
    /\ mu_calls' = mu_calls + 1
    /\ UNCHANGED <<mu_first, evoVars, nodeListVars, netVars, evolveVars, factoryVars, cfgVars>>

NextMutate == MutateCall

SpecMutate == InitMutate /\ [][NextMutate]_vars

----------------------------------------------------------------------------
(* The NodeList crossover on drawn parents *)

\* The hidden nodes of one evolution of a 1-input/1-output genome, with
\* the id and the level add-node gives them (counter from 0, edge 0 -> 1
\* holding number 0 and one more edge number 1): node 2 splits 0 -> 1,
\* node 5 splits 2 -> 1, node 8 splits 0 -> 2, and node 11 splits 0 -> 1 a
\* second time, in a genome of another lineage.
HiddenNodes ==
    {NodeNew(2, MidLevel(Rat(MIN_RATIO), Rat(MAX_RATIO))),
     NodeNew(5, MidLevel(MidLevel(Rat(MIN_RATIO), Rat(MAX_RATIO)), Rat(MAX_RATIO))),
     NodeNew(8, MidLevel(Rat(MIN_RATIO), MidLevel(Rat(MIN_RATIO), Rat(MAX_RATIO)))),
     NodeNew(11, MidLevel(Rat(MIN_RATIO), Rat(MAX_RATIO)))}

\* the nodes whose split edge exists only once node 2 does
NeedsNode2 == {n \in HiddenNodes : n.node_id \in {5, 8}}

\* the list of a set of nodes in ascending node_id (the order add-node
\* pushes them in: ids are innovation numbers)
RECURSIVE ListById(_)
ListById(S) ==
    IF S = {} THEN <<>>
    ELSE LET m == CHOOSE x \in S : \A y \in S : x.node_id <= y.node_id
         IN  <<m>> \o ListById(S \ {m})

\* the parents drawn: the 1-input/1-output node list with a hidden list
\* sorted by node_id
ParentNodeLists ==
    LET f == FactoryInitResult(1, 1)
    IN  {[input |-> f.input, output |-> f.output, hidden |-> ListById(S)] :
            S \in {T \in SUBSET HiddenNodes :
                      T \cap NeedsNode2 # {} => \E n \in T : n.node_id = 2}}

InitNodeList ==
    /\ nl_self \in ParentNodeLists
    /\ nl_other \in ParentNodeLists
    /\ nl_child = Uninit
    /\ factory = Uninit /\ population = {} /\ counter = 0 /\ counter0 = 0
    /\ panicked = "none"
    /\ net_genome = Uninit /\ net_run = Uninit /\ net_twin = Uninit
    /\ MutUnused
    /\ EvolveUnused
    /\ FactoryUnused
    /\ CfgUnused

\* impl Crossover for NodeList, called on the two parents
CrossNodeLists ==
    /\ nl_child = Uninit
    /\ nl_child' \in NodeListCrossover(nl_self, nl_other)
    /\ UNCHANGED <<nl_self, nl_other, evoVars, netVars, evolveVars, factoryVars, mutVars, cfgVars>>

NextNodeList == CrossNodeLists

SpecNodeList == InitNodeList /\ [][NextNodeList]_vars

----------------------------------------------------------------------------
(* f32 arithmetic on exact rationals, with NaN *)

NaN == <<0, 0>>
IsNaN(x) == x[2] = 0

FAdd(a, b) == IF IsNaN(a) \/ IsNaN(b) THEN NaN ELSE RAdd(a, b)
FMul(a, b) == IF IsNaN(a) \/ IsNaN(b) THEN NaN ELSE RMul(a, b)

\* f32::max and f32::min: a NaN operand is ignored
FMax(a, b) == IF IsNaN(a) THEN b ELSE IF IsNaN(b) THEN a ELSE IF RLt(a, b) THEN b ELSE a
FMin(a, b) == IF IsNaN(a) THEN b ELSE IF IsNaN(b) THEN a ELSE IF RLt(b, a) THEN b ELSE a

RECURSIVE FSum(_)
FSum(xs) == IF Len(xs) = 0 THEN Rat(0) ELSE FAdd(Head(xs), FSum(Tail(xs)))

RECURSIVE FMaxOf(_)
FMaxOf(xs) == IF Len(xs) = 1 THEN xs[1] ELSE FMax(xs[1], FMaxOf(Tail(xs)))

\* Aggregation::apply for Sum, Max and Mean (the mean of no value is 0/0)
AggregationApply(aggregation, xs) ==
    IF aggregation = "Sum" THEN FSum(xs)
    ELSE IF aggregation = "Max" THEN (IF Len(xs) = 0 THEN Rat(0) ELSE FMaxOf(xs))
    ELSE IF Len(xs) = 0 \/ IsNaN(FSum(xs)) THEN NaN
    ELSE RDivInt(FSum(xs), Len(xs))

\* Activation::activate for Relu, Identity and Abs
ActivationActivate(activation, x) ==
    IF activation = "Relu" THEN FMax(x, Rat(0))
    ELSE IF activation = "Abs" THEN (IF IsNaN(x) THEN NaN ELSE <<Abs(x[1]), x[2]>>)
    ELSE x

\* Activate for Clamp: min with the upper limit, then max with the lower
ClampActivate(clamp, x) == FMax(FMin(x, Rat(clamp.max_limit)), Rat(clamp.min_limit))

----------------------------------------------------------------------------
(* Memory cells *)

None == [none |-> TRUE]
Some(v) == [some |-> v]
IsSome(o) == "some" \in DOMAIN o

\* MemoryCell::new: outputs 0, nothing pending, both flags false
MemoryCellNew(node, bias, aggregation, clamp, activation) ==
    [kind |-> "Activation", node |-> node, current |-> Rat(0), prev |-> Rat(0),
     bias |-> bias, current_data |-> <<>>, aggregation |-> aggregation,
     clamp |-> clamp, activation |-> activation, activated |-> FALSE,
     passed |-> FALSE]

\* MemoryCell::default(node): Mean, Clamp(-5, 5), Relu, whatever the node's
\* config says
MemoryCellDefault(node) ==
    MemoryCellNew(node, Rat(0), "Mean", [min_limit |-> -5, max_limit |-> 5], "Relu")

\* MemoryCellType::Input
InputCell(node) == [kind |-> "Input", node |-> node, cell_value |-> Rat(0)]

\* the values pending in a cell; each is kept with the node it came from
\* and the kind of edge it came over
PendingVals(current_data) == [i \in 1..Len(current_data) |-> current_data[i].val]

\* MemoryCellType::activate
CellActivate(cell, pass_flag) ==
    IF cell.kind = "Input" THEN cell
    ELSE LET agg_data == FAdd(AggregationApply(cell.aggregation,
                                               PendingVals(cell.current_data)),
                              cell.bias)
             current == ClampActivate(cell.clamp,
                                      ActivationActivate(cell.activation, agg_data))
         IN  [cell EXCEPT !.prev = cell.current, !.current = current,
                          !.activated = pass_flag, !.current_data = <<>>]

\* MemoryCellType::get_current_output
GetCurrentOutput(cell, pass_flag) ==
    IF cell.kind = "Input" THEN Some(cell.cell_value)
    ELSE IF cell.activated = pass_flag THEN Some(cell.current)
    ELSE None

\* a previous output that is the latest output of the cell, activated in
\* this pass or not
GetPreviousOutputLatest(cell, pass_flag) ==
    IF cell.kind = "Input" THEN cell.cell_value ELSE cell.current

\* MemoryCellType::get_previous_output
GetPreviousOutput(cell, pass_flag) ==
    IF cell.kind = "Input" THEN cell.cell_value
    ELSE IF cell.activated = pass_flag THEN cell.prev
    ELSE cell.current

\* MemoryCellType::propagate_input
PropagateInput(cell, entry) ==
    IF cell.kind = "Input" THEN [cell EXCEPT !.cell_value = entry.val]
    ELSE [cell EXCEPT !.current_data = Append(@, entry)]

\* MemoryCellType::was_not_passed_set: the answer and the cell after it
WasNotPassedSet(cell, pass_flag) ==
    IF cell.kind = "Input" THEN [answer |-> TRUE, cell |-> cell]
    ELSE [answer |-> cell.passed # pass_flag,
          cell |-> [cell EXCEPT !.passed = pass_flag]]

----------------------------------------------------------------------------
(* FFNetwork: construction *)

\* memory indices are 0-based, as in the code
Cell(memory, index) == memory[index + 1]

\* sorted_by_key on node_id: a stable sort
RECURSIVE SortedByKey(_)
SortedByKey(cells) ==
    IF Len(cells) = 0 THEN <<>>
    ELSE LET lo == CHOOSE i \in 1..Len(cells) :
                       /\ \A j \in 1..Len(cells) :
                              cells[i].node.node_id <= cells[j].node.node_id
                       /\ \A j \in 1..(i - 1) :
                              cells[j].node.node_id # cells[i].node.node_id
         IN  <<cells[lo]>> \o
             SortedByKey([k \in 1..(Len(cells) - 1) |->
                             IF k < lo THEN cells[k] ELSE cells[k + 1]])

\* get_mem_location: the binary search for a node_id in the memory, which
\* holds every id once; -1 stands for the failed expect("Id should be in list")
GetMemLocation(memory, item) ==
    IF \E i \in 1..Len(memory) : memory[i].node.node_id = item
    THEN (CHOOSE i \in 1..Len(memory) : memory[i].node.node_id = item) - 1
    ELSE -1

\* the loop of FFNetwork::new over the enabled edges from position i on:
\* an edge with level(in) >= level(out) goes to the back map, at the row
\* out_index - (inputs + outputs); any other to the edge map, at in_index
RECURSIVE PlaceEdges(_, _, _, _, _, _)
PlaceEdges(memory, io, edges, i, edge_map, back_map) ==
    IF i > Len(edges) THEN [edge_map |-> edge_map, back_map |-> back_map]
    ELSE LET in_index == GetMemLocation(memory, edges[i].in_node)
             out_index == GetMemLocation(memory, edges[i].out_node)
         IN  IF in_index = -1 \/ out_index = -1
             THEN [panic |-> "Id should be in list"]
             ELSE IF ~RLt(Cell(memory, in_index).node.level,
                          Cell(memory, out_index).node.level)
             THEN IF out_index - io < 0
                  THEN [panic |-> "back_map index: attempt to subtract with overflow"]
                  ELSE IF out_index - io >= Len(back_map)
                  THEN [panic |-> "back_map index out of bounds"]
                  ELSE PlaceEdges(memory, io, edges, i + 1, edge_map,
                           [back_map EXCEPT ![out_index - io + 1] =
                               Append(@, [dest |-> edges[i].in_node,
                                          weight |-> edges[i].weight])])
             ELSE PlaceEdges(memory, io, edges, i + 1,
                      [edge_map EXCEPT ![in_index + 1] =
                          Append(@, [dest |-> edges[i].out_node,
                                     weight |-> edges[i].weight])],
                      back_map)

\* FFNetwork::new: the network, or the panic the construction ends in
FFNetworkNew(node_list, genome_list) ==
    LET memory == SortedByKey(
                      [i \in 1..Len(node_list.input) |-> InputCell(node_list.input[i])]
                      \o [i \in 1..Len(node_list.output) |->
                             MemoryCellDefault(node_list.output[i])]
                      \o [i \in 1..Len(node_list.hidden) |->
                             MemoryCellDefault(node_list.hidden[i])])
        maps == PlaceEdges(memory, Len(node_list.input) + Len(node_list.output),
                           SelectSeq(genome_list, LAMBDA edge : edge.enabled), 1,
                           [i \in 1..Len(memory) |-> <<>>],
                           [i \in 1..Len(node_list.hidden) |-> <<>>])
    IN  IF "panic" \in DOMAIN maps THEN maps
        ELSE [memory |-> memory, pass |-> FALSE, edge_map |-> maps.edge_map,
              back_map |-> maps.back_map,
              lengths |-> [input |-> Len(node_list.input),
                           output |-> Len(node_list.output),
                           hidden |-> Len(node_list.hidden)]]

\* FFNetwork::is_hidden
IsHidden(net, node_id) == net.lengths.input + net.lengths.output <= node_id

\* FFNetwork::translate_hidden: the row, or the panic of the lookup or of
\* the subtraction
TranslateHidden(net, node_id) ==
    LET index == GetMemLocation(net.memory, node_id)
        io == net.lengths.input + net.lengths.output
    IN  IF index = -1 THEN [panic |-> "Id should be in list"]
        ELSE IF index - io < 0
        THEN [panic |-> "translate_hidden: attempt to subtract with overflow"]
        ELSE [row |-> index - io]

----------------------------------------------------------------------------
(* FFNetwork: forward, as the steps of one call *)

\* A run of a network: the network (or the panic that ended the run), the
\* heap of the call in progress, and a record of the calls: how many were
\* made, the input and the result of the last one, the output value of
\* every cell when the call started (snap), and one entry per activation
\* of the call (log): the node, the pending values consumed, the output.
RunNew(node_list, genome_list) ==
    LET net == FFNetworkNew(node_list, genome_list)
    IN  [net |-> net,
         panic |-> IF "panic" \in DOMAIN net THEN net.panic ELSE "none",
         running |-> FALSE, queue |-> {}, calls |-> 0, input |-> <<>>,
         result |-> None, snap |-> <<>>, log |-> <<>>]

\* the output value a cell holds
CellValue(cell) == IF cell.kind = "Input" THEN cell.cell_value ELSE cell.current

\* forward, up to the loop: the pass flag is flipped, then the length is
\* tested (None on a mismatch), the inputs are written and the heap is
\* filled with the input nodes
ForwardBegin(run, input_vector) ==
    LET net == [run.net EXCEPT !.pass = ~@]
        n == net.lengths.input
        base == [run EXCEPT !.calls = @ + 1, !.input = input_vector, !.log = <<>>,
                            !.snap = [i \in 1..Len(net.memory) |-> CellValue(net.memory[i])]]
    IN  IF Len(input_vector) # n
        THEN [base EXCEPT !.net = net, !.result = None, !.running = FALSE]
        ELSE [base EXCEPT
                 !.net = [net EXCEPT !.memory =
                             [i \in 1..Len(net.memory) |->
                                 IF i <= n
                                 THEN PropagateInput(net.memory[i],
                                          [val |-> input_vector[i], src |-> -1,
                                           via |-> "input"])
                                 ELSE net.memory[i]]],
                 !.queue = {net.memory[i].node.node_id : i \in 1..n},
                 !.result = None, !.running = TRUE]

\* the nodes the heap can pop next: those of the least level
Heads(run) ==
    {h \in run.queue :
        \A k \in run.queue :
            RLe(Cell(run.net.memory, GetMemLocation(run.net.memory, h)).node.level,
                Cell(run.net.memory, GetMemLocation(run.net.memory, k)).node.level)}

\* a pull that leaves out the recurrent edges whose source reads as 0
BackPullUnlessZero(net, row) ==
    SelectSeq([i \in 1..Len(net.back_map[row + 1]) |->
                  LET v == net.back_map[row + 1][i]
                      index == GetMemLocation(net.memory, v.dest)
                  IN  [val |-> FMul(GetPreviousOutput(Cell(net.memory, index), net.pass),
                                    v.weight),
                       src |-> v.dest, via |-> "back"]],
              LAMBDA entry : entry.val # Rat(0))

\* the pull over the recurrent edges of a row: one pending value per edge,
\* the previous output of its source times the weight
BackPull(net, row) ==
    [i \in 1..Len(net.back_map[row + 1]) |->
        LET v == net.back_map[row + 1][i]
            index == GetMemLocation(net.memory, v.dest)
        IN  [val |-> FMul(GetPreviousOutput(Cell(net.memory, index), net.pass), v.weight),
             src |-> v.dest, via |-> "back"]]

\* the loop over the forward edges of the head, from position i on: the
\* head's current output times the weight goes to the destination, which
\* is pushed unless it was pushed in this pass before
RECURSIVE PushForward(_, _, _, _, _)
PushForward(net, queue, head_id, head_idx, i) ==
    IF i > Len(net.edge_map[head_idx + 1]) THEN [net |-> net, queue |-> queue]
    ELSE LET edge == net.edge_map[head_idx + 1][i]
             index == GetMemLocation(net.memory, edge.dest)
             input == GetCurrentOutput(Cell(net.memory, head_idx), net.pass)
         IN  IF index = -1 THEN [panic |-> "Id should be in list"]
             ELSE IF ~IsSome(input)
             THEN [panic |-> "This must be a forward conneciton"]
             ELSE LET fed == PropagateInput(Cell(net.memory, index),
                                 [val |-> FMul(input.some, edge.weight),
                                  src |-> head_id, via |-> "edge"])
                      w == WasNotPassedSet(fed, net.pass)
                  IN  PushForward([net EXCEPT !.memory[index + 1] = w.cell],
                                  IF w.answer THEN queue \cup {edge.dest} ELSE queue,
                                  head_id, head_idx, i + 1)

\* one turn of the loop of forward: the head is popped; a head whose id
\* is a hidden id pulls its recurrent edges (the row is looked up from the
\* head's memory index); the head is activated and feeds its forward edges
ForwardPop(run, head_id) ==
    LET net == run.net
        head_idx == GetMemLocation(net.memory, head_id)
        tr == IF IsHidden(net, head_id) THEN TranslateHidden(net, head_idx)
              ELSE [skip |-> TRUE]
    IN  IF "panic" \in DOMAIN tr
        THEN [run EXCEPT !.panic = tr.panic, !.running = FALSE,
                         !.queue = @ \ {head_id}]
        ELSE LET pulled == IF "row" \in DOMAIN tr THEN BackPull(net, tr.row) ELSE <<>>
                 ready == IF Len(pulled) = 0 THEN Cell(net.memory, head_idx)
                          ELSE [Cell(net.memory, head_idx) EXCEPT
                                   !.current_data = @ \o pulled]
                 done == CellActivate(ready, net.pass)
                 fed == PushForward([net EXCEPT !.memory[head_idx + 1] = done],
                                    run.queue \ {head_id}, head_id, head_idx, 1)
             IN  IF "panic" \in DOMAIN fed
                 THEN [run EXCEPT !.panic = fed.panic, !.running = FALSE,
                                  !.queue = @ \ {head_id}]
                 ELSE [run EXCEPT
                          !.net = fed.net, !.queue = fed.queue,
                          !.log = IF ready.kind = "Input" THEN @
                                  ELSE Append(@, [node |-> head_id,
                                                  data |-> ready.current_data,
                                                  out |-> done.current])]

\* an output read that gives 1 for a cell without a current output
OutputOr1(cell, pass_flag) ==
    LET o == GetCurrentOutput(cell, pass_flag)
    IN  IF IsSome(o) THEN o.some ELSE Rat(1)

\* the value an output cell gives: its current output, or 0 when it has none
OutputOr0(cell, pass_flag) ==
    LET o == GetCurrentOutput(cell, pass_flag)
    IN  IF IsSome(o) THEN o.some ELSE Rat(0)

\* forward, after the loop: the cells at the output positions are read
ForwardReturn(run) ==
    LET net == run.net
    IN  [run EXCEPT
            !.running = FALSE,
            !.result = Some([i \in 1..net.lengths.output |->
                               OutputOr0(Cell(net.memory, net.lengths.input + i - 1),
                                         net.pass)])]

\* the loop of forward run to its end, the heap popping the first of its
\* least nodes, and the return
RECURSIVE ForwardLoop(_)
ForwardLoop(run) ==
    IF run.panic # "none" \/ ~run.running THEN run
    ELSE IF run.queue = {} THEN ForwardReturn(run)
    ELSE ForwardLoop(ForwardPop(run, CHOOSE h \in Heads(run) :
                                         \A k \in Heads(run) : h <= k))

\* one whole call of forward
ForwardCall(run, input_vector) == ForwardLoop(ForwardBegin(run, input_vector))

----------------------------------------------------------------------------
(* The network state machine: build, then forward calls *)

\* forward calls made on one network
MaxCalls == 2

\* the hidden ids of the drawn genomes: contiguous after the input and
\* output ids, or not
HiddenIdLists == {<<2, 3>>, <<3, 4>>}

\* the configs of the drawn genomes' hidden and output nodes
NodeConfigs ==
    {ConfigDefault,
     [aggregation |-> "Sum", clamp |-> [min_limit |-> -1, max_limit |-> 1],
      activation |-> "Identity"]}

\* the input vectors of the calls: for the 1-input genomes two of the
\* right length and one too short; for the 2-input genomes of the tests the
\* vectors the tests call forward with
InputVectors ==
    {<<Rat(1)>>, <<Rat(3)>>, <<>>,
     <<<<1, 10>>, <<1, 2>>>>, <<<<3, 10>>, <<3, 10>>>>, <<<<1, 10>>, <<1, 10>>>>}

\* the edges of the drawn genomes, by innovation number, between input 0,
\* output 1 and the hidden nodes a and b: forward ones, recurrent ones
\* into a hidden node, and the self-loop of the output
NetEdges(a, b) ==
    <<[in_node |-> 0, out_node |-> 1, weight |-> <<-1, 1>>],
      [in_node |-> 0, out_node |-> a, weight |-> Rat(2)],
      [in_node |-> a, out_node |-> 1, weight |-> Rat(1)],
      [in_node |-> 0, out_node |-> b, weight |-> Rat(1)],
      [in_node |-> b, out_node |-> 1, weight |-> Rat(1)],
      [in_node |-> b, out_node |-> a, weight |-> Rat(1)],
      [in_node |-> b, out_node |-> b, weight |-> <<1, 2>>],
      [in_node |-> 1, out_node |-> 1, weight |-> Rat(1)]>>

\* the genomes drawn: 1 input, 1 output, two hidden nodes at the levels
\* add-node gives the split of 0 -> 1 and then of a -> 1, every edge
\* enabled or not
NetGenomes ==
    {[input |-> FactoryInitResult(1, 1).input,
      output |-> <<[FactoryInitResult(1, 1).output[1] EXCEPT !.config = cfg]>>,
      hidden |-> <<[node_id |-> ids[1], config |-> cfg,
                    level |-> MidLevel(Rat(MIN_RATIO), Rat(MAX_RATIO))],
                   [node_id |-> ids[2], config |-> cfg,
                    level |-> MidLevel(MidLevel(Rat(MIN_RATIO), Rat(MAX_RATIO)),
                                       Rat(MAX_RATIO))]>>,
      edges |-> [i \in 1..Len(NetEdges(ids[1], ids[2])) |->
                    NetEdges(ids[1], ids[2])[i] @@
                        [innov_number |-> i, enabled |-> (i \in on)]]] :
        ids \in HiddenIdLists, cfg \in NodeConfigs,
        on \in SUBSET (1..Len(NetEdges(0, 0)))}

\* the contiguous id of a node: hidden nodes are numbered after the input
\* and output nodes, in the order of their ids
Contiguous(g, id) ==
    IF id \in NodeIds(g.hidden)
    THEN Len(g.input) + Len(g.output)
             + Cardinality({k \in NodeIds(g.hidden) : k < id})
    ELSE id

\* the genome with its hidden nodes renamed to contiguous ids
Renamed(g) ==
    [g EXCEPT
        !.hidden = [i \in 1..Len(g.hidden) |->
                       [g.hidden[i] EXCEPT !.node_id = Contiguous(g, @)]],
        !.edges = [i \in 1..Len(g.edges) |->
                      [g.edges[i] EXCEPT !.in_node = Contiguous(g, @),
                                         !.out_node = Contiguous(g, @)]]]

\* the genome of test_some_hidden_no_back: inputs 0, 1, outputs 2, 3,
\* hidden 4, 5 at level 50, five enabled edges of weight 2
OneHiddenLayerGenome ==
    [input |-> <<NodeNew(0, Rat(1)), NodeNew(1, Rat(1))>>,
     output |-> <<NodeNew(2, Rat(100)), NodeNew(3, Rat(100))>>,
     hidden |-> <<NodeNew(4, Rat(50)), NodeNew(5, Rat(50))>>,
     edges |-> <<[innov_number |-> 0, in_node |-> 0, out_node |-> 2,
                  weight |-> Rat(2), enabled |-> TRUE],
                 [innov_number |-> 1, in_node |-> 1, out_node |-> 3,
                  weight |-> Rat(2), enabled |-> TRUE],
                 [innov_number |-> 2, in_node |-> 1, out_node |-> 5,
                  weight |-> Rat(2), enabled |-> TRUE],
                 [innov_number |-> 3, in_node |-> 4, out_node |-> 2,
                  weight |-> Rat(2), enabled |-> TRUE],
                 [innov_number |-> 4, in_node |-> 5, out_node |-> 3,
                  weight |-> Rat(2), enabled |-> TRUE]>>]

\* the genome of test_some_hidden_back: inputs 0, 1, outputs 2, 3, hidden 4
\* at level 50, four forward edges of weight 2 and the back edge 3 -> 4 of
\* weight -0.5 (the test gives every edge the innovation number 0)
RecurrentLoopGenome ==
    [input |-> <<NodeNew(0, Rat(1)), NodeNew(1, Rat(1))>>,
     output |-> <<NodeNew(2, Rat(100)), NodeNew(3, Rat(100))>>,
     hidden |-> <<NodeNew(4, Rat(50))>>,
     edges |-> <<[innov_number |-> 0, in_node |-> 0, out_node |-> 4,
                  weight |-> Rat(2), enabled |-> TRUE],
                 [innov_number |-> 0, in_node |-> 1, out_node |-> 4,
                  weight |-> Rat(2), enabled |-> TRUE],
                 [innov_number |-> 0, in_node |-> 4, out_node |-> 2,
                  weight |-> Rat(2), enabled |-> TRUE],
                 [innov_number |-> 0, in_node |-> 4, out_node |-> 3,
                  weight |-> Rat(2), enabled |-> TRUE],
                 [innov_number |-> 0, in_node |-> 3, out_node |-> 4,
                  weight |-> <<-1, 2>>, enabled |-> TRUE]>>]

\* the genomes of the tests of network.rs
ScenarioGenomes == {OneHiddenLayerGenome, RecurrentLoopGenome}

\* a genome with two hidden nodes of one level, the level (1 + 100)/2 that
\* add-node gives each split of the edge 0 -> 1, with contiguous ids as in
\* the tests of network.rs; the edges between the two hidden nodes are
\* recurrent ones, between nodes of equal level
TiedHiddenGenome ==
    [input |-> FactoryInitResult(1, 1).input,
     output |-> FactoryInitResult(1, 1).output,
     hidden |-> <<NodeNew(2, MidLevel(Rat(MIN_RATIO), Rat(MAX_RATIO))),
                  NodeNew(3, MidLevel(Rat(MIN_RATIO), Rat(MAX_RATIO)))>>,
     edges |-> <<[innov_number |-> 1, in_node |-> 0, out_node |-> 2,
                  weight |-> Rat(2), enabled |-> TRUE],
                 [innov_number |-> 2, in_node |-> 2, out_node |-> 1,
                  weight |-> Rat(1), enabled |-> TRUE],
                 [innov_number |-> 3, in_node |-> 0, out_node |-> 3,
                  weight |-> Rat(1), enabled |-> TRUE],
                 [innov_number |-> 4, in_node |-> 3, out_node |-> 1,
                  weight |-> Rat(1), enabled |-> TRUE],
                 [innov_number |-> 5, in_node |-> 3, out_node |-> 2,
                  weight |-> Rat(1), enabled |-> TRUE],
                 [innov_number |-> 6, in_node |-> 2, out_node |-> 3,
                  weight |-> <<1, 2>>, enabled |-> TRUE]>>]

InitNet ==
    /\ net_genome \in NetGenomes \cup ScenarioGenomes \cup {TiedHiddenGenome}
    /\ net_run = Uninit
    /\ net_twin = Uninit
    /\ factory = Uninit /\ population = {} /\ counter = 0 /\ counter0 = 0
    /\ panicked = "none"
    /\ nl_self = Uninit /\ nl_other = Uninit /\ nl_child = Uninit
    /\ MutUnused
    /\ EvolveUnused
    /\ FactoryUnused
    /\ CfgUnused

\* FFNetwork::new on the net_genome (and on the renamed net_genome)
Build ==
    /\ net_run = Uninit
    /\ net_run' = RunNew(net_genome, net_genome.edges)
    /\ net_twin' = RunNew(Renamed(net_genome), Renamed(net_genome).edges)
    /\ UNCHANGED <<net_genome, evoVars, nodeListVars, evolveVars, factoryVars, mutVars, cfgVars>>

\* a call of forward starts
Forward(input_vector) ==
    /\ net_run # Uninit /\ net_run.panic = "none" /\ ~net_run.running
    /\ net_run.calls < MaxCalls
    /\ net_run' = ForwardBegin(net_run, input_vector)
    /\ net_twin' = IF net_twin.panic = "none" THEN ForwardBegin(net_twin, input_vector) ELSE net_twin
    /\ UNCHANGED <<net_genome, evoVars, nodeListVars, evolveVars, factoryVars, mutVars, cfgVars>>

\* the loop of forward takes one node off the heap
Pop ==
    /\ net_run # Uninit /\ net_run.panic = "none" /\ net_run.running
    /\ \E head \in Heads(net_run) :
           /\ net_run' = ForwardPop(net_run, head)
           /\ net_twin' = IF net_twin.panic = "none" /\ net_twin.running
                         /\ Contiguous(net_genome, head) \in Heads(net_twin)
                      THEN ForwardPop(net_twin, Contiguous(net_genome, head))
                      ELSE net_twin
    /\ UNCHANGED <<net_genome, evoVars, nodeListVars, evolveVars, factoryVars, mutVars, cfgVars>>

\* the heap is empty: forward returns the outputs
Return ==
    /\ net_run # Uninit /\ net_run.panic = "none" /\ net_run.running
    /\ net_run.queue = {}
    /\ net_run' = ForwardReturn(net_run)
    /\ net_twin' = IF net_twin.panic = "none" /\ net_twin.running THEN ForwardReturn(net_twin) ELSE net_twin
    /\ UNCHANGED <<net_genome, evoVars, nodeListVars, evolveVars, factoryVars, mutVars, cfgVars>>

NextNet ==
    \/ Build
    \/ \E v \in InputVectors : Forward(v)
    \/ Pop
    \/ Return

SpecNet == InitNet /\ [][NextNet]_vars

----------------------------------------------------------------------------
(* f32 arithmetic in binary: 24 significant bits, round to nearest even *)

\* a finite f32 is m * 2^e for an integer m of at most 24 bits; it is kept
\* with m odd (zero as m = 0, e = 0), so that equal values are equal records
RECURSIVE F32Norm(_, _)
F32Norm(m, e) ==
    IF m = 0 THEN [m |-> 0, e |-> 0]
    ELSE IF m % 2 = 0 THEN F32Norm(m \div 2, e + 1)
    ELSE [m |-> m, e |-> e]

\* the integer n as an f32 (n of at most 24 bits)
F32(n) == F32Norm(n, 0)

\* the bits n >= 0 has beyond the 24 of the significand
RECURSIVE Excess(_)
Excess(n) == IF n < 2^24 THEN 0 ELSE 1 + Excess(n \div 2)

\* n / 2^k rounded to the nearest integer, ties to the even one
RoundShift(n, k) ==
    IF k = 0 THEN n
    ELSE LET q == n \div 2^k
             r == n % 2^k
             half == 2^(k - 1)
         IN  IF r > half \/ (r = half /\ q % 2 = 1) THEN q + 1 ELSE q

\* the f32 nearest to n * 2^e
F32Round(n, e) ==
    LET a == Abs(n)
        k == Excess(a)
        q == RoundShift(a, k)
    IN  F32Norm(IF n < 0 THEN -q ELSE q, e + k)

F32Neg(x) == [m |-> -x.m, e |-> x.e]

\* x + y: the exact sum on the smaller exponent, rounded once
F32Add(x, y) ==
    LET e == Min2(x.e, y.e)
    IN  IF x.m = 0 THEN y
        ELSE IF y.m = 0 THEN x
        ELSE F32Round(x.m * 2^(x.e - e) + y.m * 2^(y.e - e), e)

F32Sub(x, y) == F32Add(x, F32Neg(y))

\* x * y: the exact product, rounded once
F32Mul(x, y) == F32Round(x.m * y.m, x.e + y.e)

\* x / y for positive x and y of a few bits: 29 quotient bits and a sticky
\* bit for the remainder, rounded once
F32Div(x, y) ==
    LET p == x.m * 2^28
        q == p \div y.m
        s == IF p % y.m = 0 THEN 0 ELSE 1
    IN  F32Round(2 * q + s, x.e - y.e - 29)

\* f32::recip: 1 / x
F32Recip(x) == F32Div(F32(1), x)

F32Le(x, y) ==
    LET e == Min2(x.e, y.e)
    IN  x.m * 2^(x.e - e) <= y.m * 2^(y.e - e)

F32Lt(x, y) == F32Le(x, y) /\ x # y

\* f32::min, f32::max and f32::abs on finite values
F32Min(x, y) == IF F32Le(x, y) THEN x ELSE y
F32Max(x, y) == IF F32Le(x, y) THEN y ELSE x
F32Abs(x) == [m |-> Abs(x.m), e |-> x.e]

----------------------------------------------------------------------------
(* The element-level crossovers and the Clamp, in f32 arithmetic *)

\* CrossoverMisc::default().range_float
DEFAULT_RANGE == 5

\* Activation::Sigmoid on an f32: (1 + exp(-x)).recip().  exp(-0) is 1.
\* From x = 17 on, exp(-x) is below half an ulp of 1 and the sum rounds to
\* 1.  From x = -89 down, exp(-x) is beyond f32::MAX: the sum is infinite
\* and its reciprocal is 0.  (No other x arises from the fitnesses below.)
F32Sigmoid(x) ==
    CASE x.m = 0 -> F32Recip(F32(2))
      [] x.m # 0 /\ F32Le(F32(17), x) -> F32(1)
      [] x.m # 0 /\ F32Le(x, F32(-89)) -> F32(0)

\* the exponent f32_crossover and bernoulli_crossover raise their draw to
Expo(weight_fst, weight_snd) ==
    LET range_float == F32(DEFAULT_RANGE)
    IN  F32Add(F32Mul(F32Sigmoid(F32Sub(weight_fst, weight_snd)),
                      F32Sub(range_float, F32Recip(range_float))),
               F32Recip(range_float))

\* t^5, rounded
Pow5(t) == F32Round(t.m^5, 5 * t.e)

\* the largest value of rng.gen::<f32>(): 1 - 2^-24
LargestDraw == F32Norm(2^24 - 1, -24)

\* 1/2, 3/8 and 3/4: their fifth powers are draws of rng.gen::<f32>()
FifthRoots == {F32Norm(1, -1), F32Norm(3, -3), F32Norm(3, -2)}

\* f32::powf(u, expo) on the draws of the model.  0^expo is 0.  For
\* expo = 5 it is u^5, rounded.  For expo = 1/5 as an f32 (above 1/5 by
\* 3e-9) and u = t^5, the exact power is below t by less than a fifth of
\* an ulp, and for u = 1 - 2^-24 it is below 1 by a fifth of an ulp: the
\* nearest f32 is t resp. 1.
Powf(u, expo) ==
    CASE u.m = 0 -> F32(0)
      [] u.m # 0 /\ expo = F32(5) -> Pow5(u)
      [] u.m # 0 /\ expo = F32Recip(F32(5)) /\ u = LargestDraw -> F32(1)
      [] u.m # 0 /\ expo = F32Recip(F32(5)) /\ u # LargestDraw ->
             CHOOSE t \in FifthRoots : Pow5(t) = u

\* the values of rng.gen::<f32>() the model draws for an exponent
Draws(expo) ==
    {F32(0)}
    \cup (IF expo = F32(5) THEN {F32Norm(1, -1)} ELSE {})
    \cup (IF expo = F32Recip(F32(5))
          THEN {Pow5(t) : t \in FifthRoots} \cup {LargestDraw} ELSE {})

\* the fitnesses of the model: their differences are 0, or large enough
\* for the sigmoid to be 0 or 1
FitnessVals == {F32(-100), F32(0), F32(100)}

\* CrossoverMisc::f32_crossover, u the value of rng.gen::<f32>()
f32_crossover(u, fst, weight_fst, snd, weight_snd) ==
    LET expo == Expo(weight_fst, weight_snd)
        t == Powf(u, expo)
    IN  F32Add(F32Mul(fst, F32Sub(F32(1), t)), F32Mul(t, snd))

\* CrossoverMisc::bernoulli_crossover, u the value of rng.gen::<f32>()
bernoulli_crossover(u, item_fst, weight_fst, item_snd, weight_snd) ==
    LET expo == Expo(weight_fst, weight_snd)
    IN  IF F32Lt(Powf(u, expo), F32Norm(1, -1)) THEN item_fst ELSE item_snd

\* impl Crossover for GenomeEdge with its assert_eq!: u is the draw for
\* the weight, v the draw for enabled
edge_crossover(u, v, self, fit, other, other_fit) ==
    IF self.innov_number # other.innov_number THEN [panic |-> "assert_eq"]
    ELSE [innov_number |-> self.innov_number,
          in_node |-> self.in_node,
          out_node |-> self.out_node,
          weight |-> f32_crossover(u, self.weight, fit, other.weight, other_fit),
          enabled |-> bernoulli_crossover(v, self.enabled, fit, other.enabled, other_fit)]

\* Clamp::default with f32 limits
clamp_default == [min_limit |-> F32(MIN_CLAMP), max_limit |-> F32(MAX_CLAMP)]

\* Clamp::new: None when both limits are given and min_limit >= max_limit
clamp_new(min_limit, max_limit) ==
    IF min_limit # None /\ max_limit # None /\ F32Le(max_limit, min_limit)
    THEN None
    ELSE [min_limit |-> min_limit, max_limit |-> max_limit]

\* Activate for Clamp: min with the upper limit, then max with the lower
clamp_activate(clamp, input) ==
    LET capped == IF clamp.max_limit # None THEN F32Min(input, clamp.max_limit)
                  ELSE input
    IN  IF clamp.min_limit # None THEN F32Max(capped, clamp.min_limit) ELSE capped

\* weight_mutation: (rng.gen::<f32>() * 2 - 1) * coeff, g the drawn value
weight_mutation(g, coeff) == F32Mul(F32Sub(F32Mul(g, F32(2)), F32(1)), coeff)

\* impl Mutation for Clamp: each limit that is set moves by its own jitter
clamp_mutate(clamp, g1, g2) ==
    [min_limit |-> IF clamp.min_limit = None THEN None
                   ELSE F32Add(clamp.min_limit, weight_mutation(g1, F32(1))),
     max_limit |-> IF clamp.max_limit = None THEN None
                   ELSE F32Add(clamp.max_limit, weight_mutation(g2, F32(1)))]

\* the closure of impl Crossover for Clamp on one pair of limits
limit_crossover(u, a, fit, b, other_fit) ==
    IF a = None /\ b = None THEN None
    ELSE IF a = None \/ b = None THEN bernoulli_crossover(u, a, fit, b, other_fit)
    ELSE f32_crossover(u, a, fit, b, other_fit)

\* impl Crossover for Clamp: both to_floats have two items, from_floats
\* takes the two crossed limits and finds the iterator at its end
clamp_crossover(u1, u2, self, fit, other, other_fit) ==
    [min_limit |-> limit_crossover(u1, self.min_limit, fit, other.min_limit, other_fit),
     max_limit |-> limit_crossover(u2, self.max_limit, fit, other.max_limit, other_fit)]

\* the variants of Activation without and with a parameter
PlainVariants ==
    {"Abs", "Exp", "Gauss", "Hat", "Identity", "Inv", "Log", "Relu", "Selu",
     "Sigmoid", "Sin", "Cos", "Tanh", "Gelu", "Root"}
ParamVariants == {"Softplus", "Periodic"}

\* FloatList::to_floats for Activation
to_floats(a) == IF a.variant \in ParamVariants THEN <<a.param>> ELSE <<>>

\* the zip_eq of the two float lists, mapped by f32_crossover: the crossed
\* items, and whether one list ends before the other (zip_eq panics when
\* it is asked for the item after the shorter list)
zip_eq(u, fs, fit, fo, other_fit) ==
    [items |-> [i \in 1..Min2(Len(fs), Len(fo)) |->
                    f32_crossover(u, fs[i], fit, fo[i], other_fit)],
     ragged |-> Len(fs) # Len(fo)]

\* chromes.next() after `taken` items: an item, the end, or the panic
chromes_next(chromes, taken) ==
    IF taken < Len(chromes.items) THEN [some |-> chromes.items[taken + 1]]
    ELSE IF chromes.ragged THEN [panic |-> "zip_eq"]
    ELSE None

\* FloatList::from_floats for Activation: from_floats_inner takes one item
\* for Softplus and Periodic and none for the others; then the iterator
\* must be at its end
from_floats(self, chromes) ==
    LET first == chromes_next(chromes, 0)
        taken == IF self.variant \in ParamVariants THEN 1 ELSE 0
        res == IF self.variant \notin ParamVariants THEN self
               ELSE IF first = None THEN None
               ELSE IF "panic" \in DOMAIN first THEN first
               ELSE IF self.variant = "Softplus"
               THEN [variant |-> "Softplus", param |-> first.some]
               ELSE [variant |-> "Periodic", param |-> F32Abs(first.some)]
        rest == chromes_next(chromes, taken)
    IN  IF res # None /\ "panic" \in DOMAIN res THEN res
        ELSE IF rest = None THEN res
        ELSE IF "panic" \in DOMAIN rest THEN rest
        ELSE None

\* impl Crossover for Activation: from_floats(...).expect("Weights should
\* match")
activation_crossover(u, self, fit, other, other_fit) ==
    LET res == from_floats(self, zip_eq(u, to_floats(self), fit,
                                        to_floats(other), other_fit))
    IN  IF res = None THEN [panic |-> "Weights should match"] ELSE res

----------------------------------------------------------------------------
(* The Clamp of one node under mutation, crossover and activation *)

\* mutations and crossovers of the clamp in one run
MaxOps == 2

\* the limits Clamp::new is called with
LimitVals == {None, F32(0), F32(1)}

\* the clamps a node starts with: Clamp::default, or what Clamp::new accepts
ClampStarts ==
    {clamp_default} \cup ({clamp_new(a, b) : a \in LimitVals, b \in LimitVals} \ {None})

\* the values of rng.gen::<f32>() drawn for weight_mutation: the jitters
\* are -1, 0, 1/2 and 1 - 2^-23
JitterDraws == {F32(0), F32Norm(1, -1), F32Norm(3, -2), LargestDraw}

\* the inputs the clamp is applied to
ClampInputs == {F32(-7), F32(0), F32Norm(1, -1), F32(7)}

InitClamp ==
    /\ cl_clamp \in ClampStarts
    /\ cl_last = Uninit
    /\ cl_ops = 0
    /\ cx_in = Uninit /\ cx_out = Uninit
    /\ factory = Uninit /\ population = {} /\ counter = 0 /\ counter0 = 0
    /\ panicked = "none"
    /\ nl_self = Uninit /\ nl_other = Uninit /\ nl_child = Uninit
    /\ net_genome = Uninit /\ net_run = Uninit /\ net_twin = Uninit
    /\ MutUnused
    /\ EvolveUnused
    /\ FactoryUnused

\* config.clamp.mutate(rng) in GaussianMutation::mutate
ClampMutateCall ==
    /\ cl_ops < MaxOps
    /\ \E g1 \in JitterDraws, g2 \in JitterDraws :
           cl_clamp' = clamp_mutate(cl_clamp, g1, g2)
    /\ cl_last' = [op |-> "mutate"]
    /\ cl_ops' = cl_ops + 1
    /\ UNCHANGED <<cx_in, cx_out, evoVars, nodeListVars, netVars, evolveVars, factoryVars, mutVars>>

\* self.config.clamp.crossover(rng, fit, &other.config.clamp, other_fit)
\* in the crossover of two nodes; the other clamp is one a node starts with
ClampCrossoverCall ==
    /\ cl_ops < MaxOps
    /\ \E other \in ClampStarts, fit \in FitnessVals, other_fit \in FitnessVals :
           \E u1 \in Draws(Expo(fit, other_fit)), u2 \in Draws(Expo(fit, other_fit)) :
               cl_clamp' = clamp_crossover(u1, u2, cl_clamp, fit, other, other_fit)
    /\ cl_last' = [op |-> "crossover"]
    /\ cl_ops' = cl_ops + 1
    /\ UNCHANGED <<cx_in, cx_out, evoVars, nodeListVars, netVars, evolveVars, factoryVars, mutVars>>

\* self.clamp.activate(x) in MemoryCell::activate
ClampActivateCall ==
    /\ \E input \in ClampInputs :
           cl_last' = [op |-> "activate", clamp |-> cl_clamp, input |-> input,
                       output |-> clamp_activate(cl_clamp, input)]
    /\ UNCHANGED <<cl_clamp, cl_ops, cx_in, cx_out,
                   evoVars, nodeListVars, netVars, evolveVars, factoryVars, mutVars>>

NextClamp == ClampMutateCall \/ ClampCrossoverCall \/ ClampActivateCall

SpecClamp == InitClamp /\ [][NextClamp]_vars

----------------------------------------------------------------------------
(* The element-level crossovers on drawn parents *)

\* the scalars crossed: 1, 3 and 12/7 as an f32 (0x1.b6db6ep0)
ScalarVals == {F32(1), F32(3), F32Norm(14380471, -23)}

\* two edges of one innovation number, as crossover meets them
EdgeVals ==
    {[innov_number |-> 0, in_node |-> 0, out_node |-> 1, weight |-> w, enabled |-> en] :
        w \in ScalarVals, en \in BOOLEAN}

\* the Activation values crossed
ParamVals == {F32(1), F32(3)}
ActivationValues ==
    {[variant |-> v] : v \in PlainVariants}
    \cup {[variant |-> v, param |-> p] : v \in ParamVariants, p \in ParamVals}

InitCross ==
    /\ cx_in \in
           {[kind |-> "edge", self |-> a, other |-> b, fit |-> f, other_fit |-> g] :
                a \in EdgeVals, b \in EdgeVals, f \in FitnessVals, g \in FitnessVals}
           \cup
           {[kind |-> "activation", self |-> a, other |-> b, fit |-> f, other_fit |-> g] :
                a \in ActivationValues, b \in ActivationValues,
                f \in FitnessVals, g \in FitnessVals}
    /\ cx_out = Uninit
    /\ cl_clamp = Uninit /\ cl_last = Uninit /\ cl_ops = 0
    /\ factory = Uninit /\ population = {} /\ counter = 0 /\ counter0 = 0
    /\ panicked = "none"
    /\ nl_self = Uninit /\ nl_other = Uninit /\ nl_child = Uninit
    /\ net_genome = Uninit /\ net_run = Uninit /\ net_twin = Uninit
    /\ MutUnused
    /\ EvolveUnused
    /\ FactoryUnused

\* fst_el.crossover(rng, fit_fst, snd_el, fit_snd) on two edges
EdgeCrossoverCall ==
    /\ cx_in # Uninit /\ cx_in.kind = "edge" /\ cx_out = Uninit
    /\ \E u \in Draws(Expo(cx_in.fit, cx_in.other_fit)),
          v \in Draws(Expo(cx_in.fit, cx_in.other_fit)) :
           cx_out' = [child |-> edge_crossover(u, v, cx_in.self, cx_in.fit,
                                               cx_in.other, cx_in.other_fit)]
    /\ UNCHANGED <<cx_in, cl_clamp, cl_last, cl_ops,
                   evoVars, nodeListVars, netVars, evolveVars, factoryVars, mutVars>>

\* self.config.activation.crossover(rng, fit, &other.config.activation,
\* other_fit): the child of the draw, and the children of all the draws
ActivationCrossoverCall ==
    /\ cx_in # Uninit /\ cx_in.kind = "activation" /\ cx_out = Uninit
    /\ \E u \in Draws(Expo(cx_in.fit, cx_in.other_fit)) :
           cx_out' = [child |-> activation_crossover(u, cx_in.self, cx_in.fit,
                                                     cx_in.other, cx_in.other_fit),
                      children |->
                          {activation_crossover(d, cx_in.self, cx_in.fit,
                                                cx_in.other, cx_in.other_fit) :
                               d \in Draws(Expo(cx_in.fit, cx_in.other_fit))}]
    /\ UNCHANGED <<cx_in, cl_clamp, cl_last, cl_ops,
                   evoVars, nodeListVars, netVars, evolveVars, factoryVars, mutVars>>

NextCross == EdgeCrossoverCall \/ ActivationCrossoverCall

SpecCross == InitCross /\ [][NextCross]_vars

----------------------------------------------------------------------------
(* Speciation, selection and evolve: one call of evolve on a population *)

\* individuals of the population handed to evolve
MaxPop == 3

\* the values Comparable::compare returns
CompareVals == {0, 1}

\* the fitnesses of n individuals: all equal, or all different
FitnessChoices(n) == {[i \in 1..n |-> 1], [i \in 1..n |-> i]}

\* SpeciationThreshold::threshold
threshold == 1

\* Comparable::compare of individual x with individual y, under the metric
\* the user supplied
compare(cmp, x, y) == cmp[<<x, y>>]

\* the loop of speciate from the k-th individual on: sim holds the pairs
\* <<rep, el>> the filter lets through; el joins the first cluster whose
\* first member passes, or founds a cluster at the end
RECURSIVE SpeciateLoop(_, _, _, _)
SpeciateLoop(sim, individuals, k, ret) ==
    IF k > Len(individuals) THEN ret
    ELSE LET el == individuals[k]
             v == {i \in 1..Len(ret) : <<ret[i][1], el>> \in sim}
         IN  IF v # {}
             THEN LET x == CHOOSE i \in v : \A j \in v : i <= j
                  IN  SpeciateLoop(sim, individuals, k + 1,
                                   [ret EXCEPT ![x] = Append(@, el)])
             ELSE SpeciateLoop(sim, individuals, k + 1, Append(ret, <<el>>))

\* speciate with the filter `compare > threshold`
speciateStrict(cmp, t, individuals) ==
    SpeciateLoop({p \in DOMAIN cmp : compare(cmp, p[1], p[2]) > t},
                 individuals, 1, <<>>)

\* speciate with the filter `el.compare(rep) >= threshold`
speciateSwapped(cmp, t, individuals) ==
    SpeciateLoop({p \in DOMAIN cmp : compare(cmp, p[2], p[1]) >= t},
                 individuals, 1, <<>>)

\* SpeciationThreshold::speciate
speciate(cmp, t, individuals) ==
    SpeciateLoop({p \in DOMAIN cmp : compare(cmp, p[1], p[2]) >= t},
                 individuals, 1, <<>>)

\* Individual::fitness and Individual::to_genome of individual i
fitness(pop, i) == pop.fitness[i]
to_genome(pop, i) == [genome_of |-> i]

\* RoulleteSelection::select: the members choose_weighted can return, those
\* of positive weight
select(pop, sub_pop) ==
    {sub_pop[i] : i \in {j \in 1..Len(sub_pop) : fitness(pop, sub_pop[j]) > 0}}

\* the two Items evolve hands to crossover_method
CrossoverItems(pop, parent_a, parent_b) ==
    [parent_a |-> [item |-> to_genome(pop, parent_a),
                   fitness |-> fitness(pop, parent_a)],
     parent_b |-> [item |-> to_genome(pop, parent_b),
                   fitness |-> fitness(pop, parent_a)]]

\* the populations drawn: 0..MaxPop individuals in input order, any metric,
\* positive fitnesses
InitEvolve ==
    /\ \E n \in 0..MaxPop :
       \E cmp \in [(1..n) \X (1..n) -> CompareVals], fit \in FitnessChoices(n) :
           ev_pop = [individuals |-> [i \in 1..n |-> i], compare |-> cmp,
                     fitness |-> fit]
    /\ ev_run = Uninit
    /\ FactoryUnused
    /\ factory = Uninit /\ population = {} /\ counter = 0 /\ counter0 = 0
    /\ panicked = "none"
    /\ nl_self = Uninit /\ nl_other = Uninit /\ nl_child = Uninit
    /\ net_genome = Uninit /\ net_run = Uninit /\ net_twin = Uninit
    /\ MutUnused
    /\ CfgUnused

\* evolve starts: the assertion on the population, speciate, the empty ret,
\* and the first species
EvolveBegin ==
    /\ ev_run = Uninit
    /\ ev_run' =
         IF Len(ev_pop.individuals) = 0
         THEN [pc |-> "done", s |-> <<>>, sub_pop |-> 0, made |-> 0,
               parent_a |-> None, parent_b |-> None, call |-> None,
               ret |-> <<>>, returned |-> FALSE,
               panic |-> "assertion failed: !population.is_empty()"]
         ELSE [pc |-> "select", s |-> speciate(ev_pop.compare, threshold, ev_pop.individuals),
               sub_pop |-> 1, made |-> 0,
               parent_a |-> None, parent_b |-> None, call |-> None,
               ret |-> <<>>, returned |-> FALSE, panic |-> "none"]
    /\ UNCHANGED <<ev_pop, factoryVars, evoVars, nodeListVars, netVars, mutVars, cfgVars>>

\* the two calls of select on the species
EvolveSelect ==
    /\ ev_run # Uninit /\ ev_run.pc = "select"
    /\ \E a \in select(ev_pop, ev_run.s[ev_run.sub_pop]),
          b \in select(ev_pop, ev_run.s[ev_run.sub_pop]) :
           ev_run' = [ev_run EXCEPT !.pc = "crossover",
                                    !.parent_a = a, !.parent_b = b]
    /\ UNCHANGED <<ev_pop, factoryVars, evoVars, nodeListVars, netVars, mutVars, cfgVars>>

\* the call of crossover_method on the two Items
EvolveCrossover ==
    /\ ev_run # Uninit /\ ev_run.pc = "crossover"
    /\ ev_run' = [ev_run EXCEPT
                     !.pc = "mutation",
                     !.call = CrossoverItems(ev_pop, ev_run.parent_a,
                                             ev_run.parent_b)]
    /\ UNCHANGED <<ev_pop, factoryVars, evoVars, nodeListVars, netVars, mutVars, cfgVars>>

\* todo!("Mutation"): the call of evolve ends here, before ret.push(child)
EvolveMutation ==
    /\ ev_run # Uninit /\ ev_run.pc = "mutation"
    /\ ev_run' = [ev_run EXCEPT !.pc = "done",
                                !.panic = "not yet implemented: Mutation"]
    /\ UNCHANGED <<ev_pop, factoryVars, evoVars, nodeListVars, netVars, mutVars, cfgVars>>

NextEvolve ==
    \/ EvolveBegin
    \/ EvolveSelect
    \/ EvolveCrossover
    \/ EvolveMutation

SpecEvolve == InitEvolve /\ [][NextEvolve]_vars

----------------------------------------------------------------------------
(* GenomeFactory: one call of init, and the genomes generated from it *)

\* the largest number of input nodes, and of output nodes, asked for
MaxIO == 6

\* genomes generated from one factory
MaxGenerated == 2

InitFactory ==
    /\ fa_call \in {[input |-> i, output |-> o, result |-> Uninit, genomes |-> <<>>] :
                       i \in 0..MaxIO, o \in 0..MaxIO}
    /\ factory = Uninit /\ population = {} /\ counter = 0 /\ counter0 = 0
    /\ panicked = "none"
    /\ nl_self = Uninit /\ nl_other = Uninit /\ nl_child = Uninit
    /\ net_genome = Uninit /\ net_run = Uninit /\ net_twin = Uninit
    /\ MutUnused
    /\ EvolveUnused
    /\ CfgUnused

\* GenomeFactory::init(input, output)
FactoryInitCall ==
    /\ fa_call.result = Uninit
    /\ fa_call' = [fa_call EXCEPT
                      !.result = FactoryInitResult(fa_call.input, fa_call.output)]
    /\ UNCHANGED <<evoVars, nodeListVars, netVars, mutVars, cfgVars, evolveVars>>

\* GenomeFactory::generate_genome on the factory init returned
GenerateGenomeCall ==
    /\ fa_call.result # Uninit /\ ~IsErr(fa_call.result)
    /\ Len(fa_call.genomes) < MaxGenerated
    /\ fa_call' = [fa_call EXCEPT
                      !.genomes = Append(@, GenerateGenome(fa_call.result))]
    /\ UNCHANGED <<evoVars, nodeListVars, netVars, mutVars, cfgVars, evolveVars>>

NextFactory == FactoryInitCall \/ GenerateGenomeCall

SpecFactory == InitFactory /\ [][NextFactory]_vars

----------------------------------------------------------------------------
(* Claims on the genome operators *)

EdgeInnovs(el) == {el[i].innov_number : i \in 1..Len(el)}
EdgeOf(el, n) == el[CHOOSE i \in 1..Len(el) : el[i].innov_number = n]
StrictlySorted(el) ==
    \A i \in 1..(Len(el) - 1) : el[i].innov_number < el[i + 1].innov_number
AllNodes(g) == g.input \o g.output \o g.hidden

\* C1: for any two parents with edge lists sorted by innovation number
\* without duplicates, the edge-list crossover gives a list with exactly
\* one edge per innovation number of the union and no other edge; a gene of
\* one parent only is that parent's gene, a matching gene is one gene with
\* the shared number.
CrossoverEdgeUnion ==
    \A a \in population, b \in population :
        (StrictlySorted(a.edges) /\ StrictlySorted(b.edges)) =>
            \A r \in OrderedGenomeListCrossover(a.edges, b.edges) :
                /\ ~IsPanic(r)
                /\ EdgeInnovs(r.edge_list) = EdgeInnovs(a.edges) \cup EdgeInnovs(b.edges)
                /\ Len(r.edge_list) =
                       Cardinality(EdgeInnovs(a.edges) \cup EdgeInnovs(b.edges))
                /\ \A n \in EdgeInnovs(a.edges) \ EdgeInnovs(b.edges) :
                       EdgeOf(r.edge_list, n) = EdgeOf(a.edges, n)
                /\ \A n \in EdgeInnovs(b.edges) \ EdgeInnovs(a.edges) :
                       EdgeOf(r.edge_list, n) = EdgeOf(b.edges, n)

\* C1 witness: the population holds two different parents with a matching
\* gene and a gene on each side only, and their child
CrossoverEdgeUnionWitness ==
    \E a \in population, b \in population :
        /\ EdgeInnovs(a.edges) \cap EdgeInnovs(b.edges) # {}
        /\ EdgeInnovs(a.edges) \ EdgeInnovs(b.edges) # {}
        /\ EdgeInnovs(b.edges) \ EdgeInnovs(a.edges) # {}
        /\ \E r \in OrderedGenomeListCrossover(a.edges, b.edges) :
               ~IsPanic(r) /\ Len(r.edge_list) >= 3

\* C2: after any sequence of factory, mutation and crossover steps on one
\* innovation counter, every genome's edge list is sorted ascending by
\* innovation number.
EdgesSorted == \A g \in population : IsSortedLe(g.edges)

\* C2 witness: a genome that add-edge and add-node have grown (a hidden
\* node, the split edge and the two new edges, in ascending order) next to
\* another genome with edges
EdgesSortedWitness ==
    \E g \in population, h \in population :
        /\ Len(g.hidden) >= 1 /\ Len(g.edges) >= 3
        /\ IsSortedLe(g.edges)
        /\ h # g /\ Len(h.edges) >= 1

\* C3: after any sequence of factory, mutation and crossover steps, no
\* genome holds two nodes with the same node_id.
NodeIdsUnique ==
    \A g \in population :
        \A i \in 1..Len(AllNodes(g)), j \in 1..Len(AllNodes(g)) :
            i # j => AllNodes(g)[i].node_id # AllNodes(g)[j].node_id

\* C4: for parents with hidden lists sorted ascending by node_id, the
\* child's hidden list is sorted ascending by node_id and holds exactly one
\* node for each node_id of either parent.
HiddenMergedById ==
    (/\ IsSortedById(nl_self.hidden) /\ IsSortedById(nl_other.hidden)
     /\ nl_child # Uninit /\ ~IsPanic(nl_child)) =>
        /\ IsSortedById(nl_child.hidden)
        /\ NodeIds(nl_child.hidden) = NodeIds(nl_self.hidden) \cup NodeIds(nl_other.hidden)

\* C15: after any sequence of mutations and crossovers from factory
\* genomes, every input node has the minimum level, every output node the
\* maximum level, and the level of every hidden node is strictly above the
\* input level and strictly below the output level.
LevelsOrdered ==
    \A g \in population :
        /\ \A i \in 1..Len(g.input) : g.input[i].level = Rat(MIN_RATIO)
        /\ \A i \in 1..Len(g.output) : g.output[i].level = Rat(MAX_RATIO)
        /\ \A i \in 1..Len(g.hidden) :
               /\ RLt(Rat(MIN_RATIO), g.hidden[i].level)
               /\ RLt(g.hidden[i].level, Rat(MAX_RATIO))

----------------------------------------------------------------------------
(* Claims on the network *)

IsNet(net) == "memory" \in DOMAIN net
NodeOf(g, id) == CHOOSE n \in Range(AllNodes(g)) : n.node_id = id
EnabledEdges(g) == {g.edges[i] : i \in {k \in 1..Len(g.edges) : g.edges[k].enabled}}
IsForwardEdge(g, e) == RLt(NodeOf(g, e.in_node).level, NodeOf(g, e.out_node).level)

\* the nodes reached from the inputs over enabled forward edges
RECURSIVE ForwardReach(_, _)
ForwardReach(g, R) ==
    LET more == {e.out_node : e \in {x \in EnabledEdges(g) :
                                        IsForwardEdge(g, x) /\ x.in_node \in R}}
    IN  IF more \subseteq R THEN R ELSE ForwardReach(g, R \cup more)

LogOf(r, id) == {i \in 1..Len(r.log) : r.log[i].node = id}
SnapOf(r, id) == r.snap[GetMemLocation(r.net.memory, id) + 1]
RightLength(r) == Len(r.input) = Len(net_genome.input)

\* C5: within one forward call, every non-input node reached from an input
\* over enabled forward edges is activated exactly once; and when a node is
\* activated, every node with an enabled forward edge into it that is
\* activated in the call (or is an input) has been activated before and
\* has added its weighted output to the node's pending values.
ActivatedOnceAfterPredecessors ==
    (net_run # Uninit /\ IsNet(net_run.net) /\ net_run.calls >= 1
        /\ RightLength(net_run)) =>
        /\ ~net_run.running =>
               \A n \in ForwardReach(net_genome, NodeIds(net_genome.input))
                            \ NodeIds(net_genome.input) :
                   Cardinality(LogOf(net_run, n)) = 1
        /\ \A n \in NodeIds(net_genome.hidden) \cup NodeIds(net_genome.output) :
               Cardinality(LogOf(net_run, n)) <= 1
        /\ \A i \in 1..Len(net_run.log) :
               \A e \in EnabledEdges(net_genome) :
                   (/\ IsForwardEdge(net_genome, e)
                    /\ e.out_node = net_run.log[i].node
                    /\ \/ e.in_node \in NodeIds(net_genome.input)
                       \/ LogOf(net_run, e.in_node) # {}) =>
                       /\ e.in_node \notin NodeIds(net_genome.input) =>
                              \E j \in LogOf(net_run, e.in_node) : j < i
                       /\ \E d \in 1..Len(net_run.log[i].data) :
                              /\ net_run.log[i].data[d].src = e.in_node
                              /\ net_run.log[i].data[d].via = "edge"
                              /\ net_run.log[i].data[d].val =
                                     FMul(IF e.in_node \in NodeIds(net_genome.input)
                                          THEN net_run.input[1 + GetMemLocation(
                                                   net_run.net.memory, e.in_node)]
                                          ELSE net_run.log[CHOOSE j \in LogOf(net_run,
                                                   e.in_node) : TRUE].out,
                                          e.weight)

\* C6: for every enabled recurrent edge (src -> dst, w) whose destination
\* is activated in a call, the value added to dst's pending values in that
\* call is w times the output src held when the call started (0 in the
\* first call), and nothing else is pulled over recurrent edges.
RecurrentReadsPreviousCall ==
    (net_run # Uninit /\ IsNet(net_run.net)) =>
        \A i \in 1..Len(net_run.log) :
            LET back == {e \in EnabledEdges(net_genome) :
                            ~IsForwardEdge(net_genome, e)
                            /\ e.out_node = net_run.log[i].node}
                data == net_run.log[i].data
            IN  /\ \A e \in back :
                       \E d \in 1..Len(data) :
                           /\ data[d].via = "back" /\ data[d].src = e.in_node
                           /\ data[d].val = FMul(SnapOf(net_run, e.in_node), e.weight)
                /\ Cardinality({d \in 1..Len(data) : data[d].via = "back"})
                       = Cardinality(back)

\* C7: building a network from a genome whose edges name nodes of its node
\* list succeeds, and every enabled edge is in exactly one map: the forward
\* map iff level(in) < level(out), the back map otherwise; for hidden and
\* for output destinations.
BuildPartitionsEdges ==
    net_run # Uninit =>
        /\ IsNet(net_run.net)
        /\ \A e \in EnabledEdges(net_genome) :
               LET in_row == net_run.net.edge_map[
                                 GetMemLocation(net_run.net.memory, e.in_node) + 1]
                   rows == net_run.net.back_map
                   fwd == \E k \in 1..Len(in_row) :
                              in_row[k] = [dest |-> e.out_node, weight |-> e.weight]
                   bck == \E r \in 1..Len(rows) : \E k \in 1..Len(rows[r]) :
                              /\ rows[r][k] = [dest |-> e.in_node, weight |-> e.weight]
                              /\ net_run.net.memory[r + Len(net_genome.input)
                                     + Len(net_genome.output)].node.node_id = e.out_node
               IN  /\ fwd <=> IsForwardEdge(net_genome, e)
                   /\ bck <=> ~IsForwardEdge(net_genome, e)

\* C8: a non-input node activated during forward gets the output
\* clamp(activation(aggregation(pending) + bias)) with the aggregation,
\* activation and clamp of that node's own config in the genome.
ActivationUsesOwnConfig ==
    (net_run # Uninit /\ IsNet(net_run.net)) =>
        \A i \in 1..Len(net_run.log) :
            LET config == NodeOf(net_genome, net_run.log[i].node).config
            IN  net_run.log[i].out =
                    ClampActivate(config.clamp,
                        ActivationActivate(config.activation,
                            FAdd(AggregationApply(config.aggregation,
                                                  PendingVals(net_run.log[i].data)),
                                 Rat(0))))

\* C9: the outputs of forward do not depend on the values of the hidden
\* node ids: with any distinct hidden ids above the input and output ids,
\* forward ends without failure and returns what the network with the
\* hidden nodes renamed to contiguous ids returns.
HiddenIdsDoNotMatter ==
    (net_run # Uninit /\ IsNet(net_run.net)) =>
        /\ net_run.panic = "none"
        /\ ~net_run.running => net_run.result = net_twin.result

\* C10: a network built from a genome without enabled edges returns, on
\* every call with an input of the right length, a vector of n_outputs
\* zeros.
NoEdgesZeroOutputs ==
    (net_run # Uninit /\ EnabledEdges(net_genome) = {}) =>
        /\ net_run.panic = "none"
        /\ (net_run.calls >= 1 /\ ~net_run.running /\ RightLength(net_run)) =>
               net_run.result = Some([i \in 1..Len(net_genome.output) |-> Rat(0)])

\* C10 witness: a genome without enabled edges whose network has answered
\* a second call, of the right length, with zeros
NoEdgesZeroOutputsWitness ==
    /\ net_run # Uninit /\ EnabledEdges(net_genome) = {}
    /\ net_run.calls >= 2 /\ ~net_run.running /\ RightLength(net_run)
    /\ net_run.input[1] # Rat(0)
    /\ net_run.result = Some([i \in 1..Len(net_genome.output) |-> Rat(0)])

\* C11: in every state reached by forward calls, reading the current
\* output of an activation cell with the network's pass flag gives a value
\* only if the cell was activated during the current call (the last call
\* started); for any other cell it gives None.
CurrentOutputNoneUnlessActivated ==
    (net_run # Uninit /\ IsNet(net_run.net) /\ net_run.calls >= 1) =>
        \A i \in 1..Len(net_run.net.memory) :
            LET cell == net_run.net.memory[i]
            IN  (cell.kind = "Activation"
                 /\ IsSome(GetCurrentOutput(cell, net_run.net.pass))) =>
                    LogOf(net_run, cell.node.node_id) # {}

\* the last call, ended without failure, was the k-th call on genome g
\* with input x
Answered(g, k, x) ==
    /\ net_genome = g /\ net_run # Uninit
    /\ net_run.calls = k /\ ~net_run.running /\ net_run.input = x

\* C12: in the one-hidden-layer scenario forward on (0.1, 0.5) returns
\* (0.1, 1.5): hidden node 4, which has no incoming edge, is activated on
\* no pending value, gives 0, and its edge 4 -> 2 adds that 0 to the Mean
\* of output 2.
OneHiddenLayerScenario ==
    Answered(OneHiddenLayerGenome, 1, <<<<1, 10>>, <<1, 2>>>>) =>
        /\ net_run.panic = "none"
        /\ net_run.result = Some(<<<<1, 10>>, <<3, 2>>>>)
        /\ \E i \in LogOf(net_run, 4) :
               net_run.log[i].data = <<>> /\ net_run.log[i].out = Rat(0)

\* the recurrent-loop genome without its back edge 3 -> 4
WithoutBackEdge == [RecurrentLoopGenome EXCEPT !.edges = SubSeq(@, 1, 4)]

\* what the first call on (0.3, 0.3) returns without the back edge
FeedForwardResult ==
    ForwardCall(RunNew(WithoutBackEdge, WithoutBackEdge.edges),
                <<<<3, 10>>, <<3, 10>>>>).result

\* C13 as stated: in the recurrent-loop scenario the first call on
\* (0.3, 0.3) returns what the same network without the back edge 3 -> 4
\* returns.
RecurrentFirstCallIsFeedForward ==
    Answered(RecurrentLoopGenome, 1, <<<<3, 10>>, <<3, 10>>>>) =>
        /\ net_run.panic = "none"
        /\ net_run.result = FeedForwardResult

\* C13 as amended: in the recurrent-loop scenario the first call on
\* (0.3, 0.3) reads 0 as the previous output of node 3; the back edge
\* 3 -> 4 adds that 0 (times -0.5) to the pending values of node 4, where
\* it counts in the Mean, and the call returns (0.8, 0.8), while the same
\* network without the back edge returns (1.2, 1.2).
RecurrentFirstCallReadsZero ==
    Answered(RecurrentLoopGenome, 1, <<<<3, 10>>, <<3, 10>>>>) =>
        /\ net_run.panic = "none"
        /\ net_run.result = Some(<<<<4, 5>>, <<4, 5>>>>)
        /\ FeedForwardResult = Some(<<<<6, 5>>, <<6, 5>>>>)
        /\ \E i \in LogOf(net_run, 4) :
               LET data == net_run.log[i].data
               IN  /\ Len(data) = 3
                   /\ \E d \in 1..Len(data) :
                          /\ data[d].via = "back" /\ data[d].src = 3
                          /\ data[d].val = Rat(0)

\* C13 witness: the first call of the recurrent-loop scenario has returned
\* (0.8, 0.8) after node 4 pulled over its back edge
RecurrentFirstCallWitness ==
    /\ Answered(RecurrentLoopGenome, 1, <<<<3, 10>>, <<3, 10>>>>)
    /\ net_run.result = Some(<<<<4, 5>>, <<4, 5>>>>)
    /\ \E i \in LogOf(net_run, 4) :
           \E d \in 1..Len(net_run.log[i].data) : net_run.log[i].data[d].via = "back"

----------------------------------------------------------------------------
(* Claims on the calls of mutate *)

\* the nodes of genome g that hold the id
NodesOf(g, id) == {n \in Range(AllNodes(g)) : n.node_id = id}

\* the last call of mutate took its add-node step and the step ended
DidAddNode ==
    mu_last # Uninit /\ mu_last.node.node /\ mu_last.node.panic = "none"

\* C14: the add-node step on the chosen edge e disables e, adds one hidden
\* node whose node_id is the fresh innovation number n and whose level is
\* exactly (level(e.in_node) + level(e.out_node)) / 2, adds the enabled
\* edges e.in_node -> n and n -> e.out_node with two further fresh, distinct
\* innovation numbers, changes nothing else, and leaves the hidden list
\* sorted by node_id.
AddNodeEffect ==
    DidAddNode =>
        LET g == mu_last.payload
            h == mu_last.node.genome
            c == mu_last.counter
            e == g.edges[mu_last.node.k]
            n == h.hidden[Len(h.hidden)]
            e1 == h.edges[Len(h.edges) - 1]
            e2 == h.edges[Len(h.edges)]
        IN  /\ Len(h.edges) = Len(g.edges) + 2
            /\ \A i \in 1..Len(g.edges) :
                   h.edges[i] = IF i = mu_last.node.k
                                THEN [e EXCEPT !.enabled = FALSE] ELSE g.edges[i]
            /\ h.input = g.input /\ h.output = g.output
            /\ h.hidden = Append(g.hidden, n)
            /\ n.node_id = c
            /\ \A s \in NodesOf(g, e.in_node), t \in NodesOf(g, e.out_node) :
                   n.level = Reduce(s.level[1] * t.level[2] + t.level[1] * s.level[2],
                                    2 * s.level[2] * t.level[2])
            /\ e1.in_node = e.in_node /\ e1.out_node = n.node_id /\ e1.enabled
            /\ e2.in_node = n.node_id /\ e2.out_node = e.out_node /\ e2.enabled
            /\ e1.innov_number # e2.innov_number
            /\ \A x \in {e1.innov_number, e2.innov_number} :
                   x > c /\ x < mu_last.node.counter /\ x \notin EdgeInnovs(g.edges)
            /\ IsSortedById(g.hidden) => IsSortedById(h.hidden)

\* the last call of mutate drew its add-edge step
DidAddEdge == mu_last # Uninit /\ mu_last.edge # Uninit /\ mu_last.edge.edge

\* C16: the add-edge step is a no-op when the edge count equals the
\* capacity n_in * (n_hid + n_out) + (n_hid + n_out) * (n_hid + n_out - 1),
\* or when every attempt draws a pair that is already an edge: the edge
\* list, the node lists and the innovation counter stay as they were.
AddEdgeNoOp ==
    DidAddEdge =>
        LET g == mu_last.node.genome
            p == Len(g.hidden) + Len(g.output)
            cap == Len(g.input) * p + p * (p - 1)
            draws == mu_last.edge.draws
        IN  (\/ Len(g.edges) = cap
             \/ \A i \in 1..Len(draws) :
                    \E j \in 1..Len(g.edges) :
                        draws[i] = <<g.edges[j].in_node, g.edges[j].out_node>>) =>
                /\ mu_last.edge.genome = g /\ mu_genome = g
                /\ mu_last.edge.counter = mu_last.node.counter
                /\ mu_counter = mu_last.node.counter

\* C16 witness: add-edge was drawn on a genome below its capacity with a
\* free pair left, every one of its attempts (two at least) drew a taken
\* pair, and the genome and the counter are as they were
AddEdgeNoOpWitness ==
    /\ DidAddEdge
    /\ LET g == mu_last.node.genome
           draws == mu_last.edge.draws
       IN  /\ Len(g.edges) # Capacity(g)
           /\ AddEdgePairs(g) \ EdgePairs(g) # {}
           /\ Len(draws) >= 2
           /\ \A i \in 1..Len(draws) : draws[i] \in EdgePairs(g)
           /\ mu_genome = g /\ mu_counter = mu_last.node.counter

\* C17 as stated: after K calls of mutate on one counter the greatest
\* innovation number of the genome's edges has not decreased from one call
\* to the next and is at most initial_counter + 3K.
InnovationBound3K ==
    mu_genome # Uninit =>
        /\ \A x \in EdgeInnovs(mu_genome.edges) : x <= mu_first + 3 * mu_calls
        /\ mu_last # Uninit =>
               \A x \in EdgeInnovs(mu_last.before.edges) :
                   \E y \in EdgeInnovs(mu_genome.edges) : x <= y

\* C17 as amended: after K calls of mutate on one counter the greatest
\* innovation number of the genome's edges has not decreased from one call
\* to the next and is at most initial_counter + 4K (one call can add a
\* node, which takes 3 numbers, and an edge, which takes 1).
InnovationBound4K ==
    mu_genome # Uninit =>
        /\ \A x \in EdgeInnovs(mu_genome.edges) : x <= mu_first + 4 * mu_calls
        /\ mu_last # Uninit =>
               \A x \in EdgeInnovs(mu_last.before.edges) :
                   \E y \in EdgeInnovs(mu_genome.edges) : x <= y

\* C17 witness: two calls that each added a node and an edge: an edge
\* carries the number initial_counter + 4 * 2 - 1, above initial_counter + 3 * 2
InnovationBoundWitness ==
    /\ mu_genome # Uninit /\ mu_calls = 2
    /\ DidAddNode /\ DidAddEdge
    /\ mu_first + 4 * mu_calls - 1 \in EdgeInnovs(mu_genome.edges)

----------------------------------------------------------------------------
(* Claims on the node configuration and the element-level crossovers *)

\* the call of cx_in was made on two Activation values of different variants
CrossedDifferentVariants ==
    /\ cx_in # Uninit /\ cx_in.kind = "activation" /\ cx_out # Uninit
    /\ cx_in.self.variant # cx_in.other.variant

\* C18: crossing two Activation values of different variants, with or
\* without parameters, completes without failure and returns one of the
\* two parents' values unchanged, and each of the two parents' values is a
\* possible result.
DifferentVariantsPickParent ==
    CrossedDifferentVariants =>
        /\ "panic" \notin DOMAIN cx_out.child
        /\ cx_out.child \in {cx_in.self, cx_in.other}
        /\ {cx_in.self, cx_in.other} \subseteq cx_out.children

\* C19: for every Clamp with both limits set that comes from Clamp::new,
\* Clamp::default, the crossover or the mutation of clamps, and every input
\* x, min_limit <= clamp(x) <= max_limit.
ClampWithinLimits ==
    (/\ cl_last # Uninit /\ cl_last.op = "activate"
     /\ cl_last.clamp.min_limit # None /\ cl_last.clamp.max_limit # None) =>
        /\ F32Le(cl_last.clamp.min_limit, cl_last.output)
        /\ F32Le(cl_last.output, cl_last.clamp.max_limit)

\* C20: for all parent scalars a and b, all fitnesses and every draw u the
\* scalar crossover returns a value in [min(a, b), max(a, b)]: the weight
\* of the child of two edges of one innovation number lies between the
\* parents' weights.
CrossoverWithinHull ==
    (cx_in # Uninit /\ cx_in.kind = "edge" /\ cx_out # Uninit) =>
        /\ F32Le(F32Min(cx_in.self.weight, cx_in.other.weight), cx_out.child.weight)
        /\ F32Le(cx_out.child.weight, F32Max(cx_in.self.weight, cx_in.other.weight))


----------------------------------------------------------------------------
(* Claims on evolve and speciation *)

\* a call of evolve on a non-empty population has ended
EvolveEnded ==
    /\ ev_run # Uninit /\ ev_run.pc = "done"
    /\ Len(ev_pop.individuals) > 0

\* C21: a call of evolve on a non-empty population ends by returning a
\* vector of exactly |population| children, |species| of them for each
\* species of the speciation, each crossed from two parents of that species
EvolveReturnsChildren ==
    EvolveEnded =>
        /\ ev_run.panic = "none" /\ ev_run.returned
        /\ Len(ev_run.ret) = Len(ev_pop.individuals)


\* speciate has returned the species s of the population
Speciated == ev_run # Uninit /\ Len(ev_pop.individuals) > 0

\* the clusters that exist when el is handed to the filter and whose first
\* member is similar to el
ClustersOpenTo(s, el) ==
    {i \in 1..Len(s) :
        /\ s[i][1] < el
        /\ compare(ev_pop.compare, s[i][1], el) >= threshold}

\* the clusters of s that hold el, with the places el takes in them
PlacesOf(s, el) ==
    {<<i, j>> \in (1..Len(s)) \X (1..Len(ev_pop.individuals)) :
        j <= Len(s[i]) /\ s[i][j] = el}

\* C22: speciate returns a partition of the population (every individual in
\* exactly one cluster, no cluster empty) built in input order: each
\* individual is in the first cluster, in creation order, whose first member
\* rep has compare(rep, individual) >= threshold, and founds a new cluster
\* at the end if there is none; members keep their input order in a cluster
SpeciatePartitionFirstFit ==
    Speciated =>
        LET s == ev_run.s
        IN  /\ \A i \in 1..Len(s) : Len(s[i]) > 0
            /\ \A el \in 1..Len(ev_pop.individuals) :
                   Cardinality(PlacesOf(s, el)) = 1
            /\ \A i \in 1..Len(s) : \A j \in 1..(Len(s[i]) - 1) :
                   s[i][j] < s[i][j + 1]
            /\ \A i \in 1..(Len(s) - 1) : s[i][1] < s[i + 1][1]
            /\ \A el \in 1..Len(ev_pop.individuals) :
                   \A pl \in PlacesOf(s, el) :
                       IF ClustersOpenTo(s, el) = {}
                       THEN pl[2] = 1
                       ELSE /\ pl[1] \in ClustersOpenTo(s, el)
                            /\ \A i \in ClustersOpenTo(s, el) : pl[1] <= i

\* an individual that two clusters were open to has joined one, and another
\* has founded a cluster of its own after the first
SpeciateFirstFitWitness ==
    /\ Speciated
    /\ Len(ev_run.s) >= 2
    /\ \E el \in 1..Len(ev_pop.individuals) :
           Cardinality(ClustersOpenTo(ev_run.s, el)) >= 2

\* the original C23: any two members x and y of the same cluster have
\* compare(x, y) >= threshold
SpeciesPairwiseSimilar ==
    Speciated =>
        \A i \in 1..Len(ev_run.s) : \A j, k \in 1..Len(ev_run.s[i]) :
            compare(ev_pop.compare, ev_run.s[i][j], ev_run.s[i][k]) >= threshold

\* C23: in every partition returned by speciate, each member y of a cluster
\* other than its first member rep has compare(rep, y) >= threshold
SpeciesSimilarToRep ==
    Speciated =>
        \A i \in 1..Len(ev_run.s) : \A k \in 2..Len(ev_run.s[i]) :
            compare(ev_pop.compare, ev_run.s[i][1], ev_run.s[i][k]) >= threshold

\* a cluster of three whose second and third member are not similar to each
\* other, and whose first member is not similar to itself
SpeciesSimilarToRepWitness ==
    /\ Speciated
    /\ \E i \in 1..Len(ev_run.s) :
           /\ Len(ev_run.s[i]) = 3
           /\ compare(ev_pop.compare, ev_run.s[i][2], ev_run.s[i][3]) < threshold
           /\ compare(ev_pop.compare, ev_run.s[i][1], ev_run.s[i][1]) < threshold


\* C29: the crossover that makes a child is given the genome of parent A
\* with the fitness of parent A, and the genome of parent B with the
\* fitness of parent B
CrossoverGivenOwnFitness ==
    (ev_run # Uninit /\ ev_run.call # None) =>
        /\ ev_run.call.parent_a.item = to_genome(ev_pop, ev_run.parent_a)
        /\ ev_run.call.parent_a.fitness = fitness(ev_pop, ev_run.parent_a)
        /\ ev_run.call.parent_b.item = to_genome(ev_pop, ev_run.parent_b)
        /\ ev_run.call.parent_b.fitness = fitness(ev_pop, ev_run.parent_b)


\* the ids of the nodes of a list, in the order of the list
IdsOf(nodes) == [i \in 1..Len(nodes) |-> nodes[i].node_id]

\* C24: GenomeFactory::init(n_inputs, n_outputs) fails with ZeroIOVector iff
\* n_inputs = 0 or n_outputs = 0; otherwise every genome generated has
\* n_inputs input nodes with the ids 0..n_inputs-1 at the minimum level,
\* n_outputs output nodes with the ids n_inputs..n_inputs+n_outputs-1 at the
\* maximum level, no hidden nodes and no edges
FactoryInitContract ==
    fa_call # Uninit /\ fa_call.result # Uninit =>
        LET n_inputs == fa_call.input
            n_outputs == fa_call.output
        IN  /\ (fa_call.result = [err |-> "ZeroIOVector"])
                   <=> (n_inputs = 0 \/ n_outputs = 0)
            /\ IsErr(fa_call.result) <=> (n_inputs = 0 \/ n_outputs = 0)
            /\ \A k \in 1..Len(fa_call.genomes) :
                   LET g == fa_call.genomes[k]
                   IN  /\ IdsOf(g.input) = [i \in 1..n_inputs |-> i - 1]
                       /\ \A i \in 1..Len(g.input) :
                              g.input[i].level = Rat(MIN_RATIO)
                       /\ IdsOf(g.output)
                              = [i \in 1..n_outputs |-> n_inputs + i - 1]
                       /\ \A i \in 1..Len(g.output) :
                              g.output[i].level = Rat(MAX_RATIO)
                       /\ g.hidden = <<>>
                       /\ g.edges = <<>>

\* two genomes have been generated from a factory of several inputs and
\* several outputs
FactoryInitContractWitness ==
    /\ fa_call # Uninit
    /\ fa_call.input >= 2 /\ fa_call.output >= 2
    /\ Len(fa_call.genomes) = 2


----------------------------------------------------------------------------
(* Claims on mutate and crossover of factory genomes *)

\* C28: a call of mutate on a genome that has no edges completes without
\* failure, whatever its random draws are, the draw of add-node included
MutateNoEdgesCompletes ==
    (mu_last # Uninit /\ Len(mu_last.before.edges) = 0) => mu_panic = "none"


\* the assertions a crossover can die of
CrossoverAssertions ==
    {"Node::crossover assert_eq", "GenomeEdge::crossover assert_eq",
     "new_sorted assert"}

\* C26: crossover of two genomes that descend from the same factory and
\* share one innovation counter never dies of an assertion: the node-level
\* crossover is only called on two nodes of equal node_id and equal level,
\* the edge-level crossover only on two edges of equal innovation number
CrossoverNeverAsserts ==
    nl_child # Uninit =>
        ~(IsPanic(nl_child) /\ nl_child.panic \in CrossoverAssertions)


\* C27: after any sequence of mutations and crossovers from empty factory
\* genomes, no genome holds two edges (enabled or not) with the same ordered
\* pair (in_node, out_node)
NoDuplicateEdgePairs ==
    \A g \in population :
        \A i, j \in 1..Len(g.edges) :
            (g.edges[i].in_node = g.edges[j].in_node
             /\ g.edges[i].out_node = g.edges[j].out_node) => i = j


----------------------------------------------------------------------------
(* Claims on rejected calls and on the order of the heap *)

\* the step is a call of forward that is rejected for the length of its
\* input vector
RejectedCall ==
    /\ net_run # Uninit /\ net_run.panic = "none" /\ ~net_run.running
    /\ net_run'.calls = net_run.calls + 1
    /\ Len(net_run'.input) # net_run.net.lengths.input

\* the input vectors of the right length for the network of a run
CorrectInputs(run) == {v \in InputVectors : Len(v) = run.net.lengths.input}

\* C25: a call of forward rejected for the length of its input vector
\* leaves the evaluation state of the network as it was: every later call
\* with a vector of the right length returns what it would have returned
\* had the rejected call not been made
RejectedCallLeavesNoTrace ==
    [][RejectedCall =>
          /\ net_run'.net = net_run.net
          /\ \A v \in CorrectInputs(net_run) :
                 ForwardCall(net_run', v).result = ForwardCall(net_run, v).result
      ]_vars


\* what a call of forward leaves behind: the panic that ended it, or the
\* outputs returned and the current and previous value of every cell
Outcome(run) ==
    IF run.panic # "none" THEN [panic |-> run.panic]
    ELSE [result |-> run.result,
          cells |-> [i \in 1..Len(run.net.memory) |->
                        IF run.net.memory[i].kind = "Input"
                        THEN <<run.net.memory[i].cell_value>>
                        ELSE <<run.net.memory[i].current, run.net.memory[i].prev>>]]

\* the hidden nodes h and s are both at the head of the heap and a
\* recurrent edge leads from s to h
TiedByRecurrentEdge(run, s, h) ==
    /\ s \in Heads(run) /\ h \in Heads(run) /\ s # h
    /\ IsHidden(run.net, s) /\ IsHidden(run.net, h)
    /\ LET tr == TranslateHidden(run.net, GetMemLocation(run.net.memory, h))
       IN  /\ "row" \in DOMAIN tr
           /\ \E i \in 1..Len(run.net.back_map[tr.row + 1]) :
                  run.net.back_map[tr.row + 1][i].dest = s

\* C30: forward is deterministic under the tie-breaking of the heap:
\* whichever node of the least level is popped next, the call ends with the
\* same outputs and the same current and previous value in every cell
HeapOrderIrrelevant ==
    (net_run # Uninit /\ net_run.panic = "none" /\ net_run.running) =>
        \A h \in Heads(net_run) :
            Outcome(ForwardLoop(ForwardPop(net_run, h))) = Outcome(ForwardLoop(net_run))

\* in a second call, two hidden nodes of equal level linked by a recurrent
\* edge are at the head of the heap, and the source of the edge holds an
\* output other than 0
HeapOrderWitness ==
    /\ net_run # Uninit /\ net_run.panic = "none" /\ net_run.running
    /\ net_run.calls = 2
    /\ \E s, h \in Heads(net_run) :
           /\ TiedByRecurrentEdge(net_run, s, h)
           /\ CellValue(Cell(net_run.net.memory,
                             GetMemLocation(net_run.net.memory, s))) # Rat(0)

====
